---- MODULE Spec2Model ----
(***************************************************************************)
(* minifilepath: validated, canonical, relative UTF-8 file paths.          *)
(*                                                                         *)
(* Strings are sequences of Unicode scalar values (code points); byte      *)
(* lengths and byte offsets are those of the UTF-8 encoding.  The host     *)
(* path syntax is the Windows one (both '/' and '\' separate components,   *)
(* "C:" and "\\server\share" are prefixes): the crate's own tests          *)
(* (src/src/path.rs, tests::PrefixedPath, tests::CurrentDirectory,         *)
(* tests::components) only pass there.                                     *)
(***************************************************************************)
EXTENDS Integers, Sequences, FiniteSets, TLC

VARIABLES
    component,  \* the component handed to validate_normal_path_component
    vresult,    \* its Result<(), FilePathError>, or Pending before the call
    path,       \* the raw input handed to FilePath::new / FilePathBuf::new
    op,         \* which constructor ran on `path`: "none" before the call
    result,     \* that constructor's Result
    lhs,        \* left operand of a comparison: a raw input FilePath::new accepts
    rhs,        \* right operand
    cmp,        \* outcome of the comparison and of the two hashes
    buf,        \* a FilePathBuf: how it was made and its string
    out,        \* what the operation applied to `buf` returned
    builder     \* the contents of a FilePathBuilder

vars == <<component, vresult, path, op, result, lhs, rhs, cmp, buf, out, builder>>

-----------------------------------------------------------------------------
(* Program constants.                                                      *)

MAX_COMPONENT_LEN == 255

MAX_PATH_LEN == 65535

MAX_NUM_COMPONENTS == MAX_PATH_LEN \div 2

-----------------------------------------------------------------------------
(* Bounds of the model.                                                    *)

\* Components are concatenations of at most this many tokens of CompTokens.
MaxCompTokens == 3

\* Long components are MAX_COMPONENT_LEN +/- PadSlack bytes of padding plus a token.
PadSlack == 2

\* Raw paths are concatenations of at most this many tokens of PathTokens.
MaxPathTokens == 5

\* Compared paths are concatenations of at most this many tokens of PairTokens.
MaxPairTokens == 3

\* Tokens per raw path a FilePathBuf is made from.
MaxBufTokens == 4

\* Length of a builder's string from which nothing more is pushed.
MaxBuilderLen == 6

\* File names are concatenations of at most this many tokens of NameTokens.
MaxNameTokens == 4

\* Split components are concatenations of at most this many tokens of SplitTokens.
MaxSplitTokens == 2

\* How far below MAX_PATH_LEN a long builder is still extended and popped.
NearLimit == 3

\* Iterated paths have at most this many components.
MaxIterComponents == 4

\* A FilePathBufIter is called at most this many times after it returned None.
MaxExtraCalls == 2

-----------------------------------------------------------------------------
(* Characters.                                                             *)

\* The printable ASCII characters, U+0020 .. U+007E, in code point order
\* (U+0060 is spelled "grave").
AsciiPrintable ==
    << " ", "!", "\"", "#", "$", "%", "&", "'", "(", ")", "*", "+", ",", "-", ".", "/",
       "0", "1", "2", "3", "4", "5", "6", "7", "8", "9", ":", ";", "<", "=", ">", "?",
       "@", "A", "B", "C", "D", "E", "F", "G", "H", "I", "J", "K", "L", "M", "N", "O",
       "P", "Q", "R", "S", "T", "U", "V", "W", "X", "Y", "Z", "[", "\\", "]", "^", "_",
       "grave", "a", "b", "c", "d", "e", "f", "g", "h", "i", "j", "k", "l", "m", "n", "o",
       "p", "q", "r", "s", "t", "u", "v", "w", "x", "y", "z", "{", "|", "}", "~" >>

\* Code point of a printable ASCII character.
Ord(ch) == 31 + (CHOOSE i \in 1..Len(AsciiPrintable) : AsciiPrintable[i] = ch)

\* The character of a code point, for matching against character literals.
Chr(c) == IF c \in 32..126 THEN AsciiPrintable[c - 31] ELSE "other"

\* A string literal, written as a tuple of one-character strings.
Str(chars) == [i \in 1..Len(chars) |-> Ord(chars[i])]

\* char::is_ascii
IsAscii(c) == c < 128

\* char::is_ascii_control
IsAsciiControl(c) == c \in 0..31 \/ c = 127

\* char::to_ascii_lowercase
ToAsciiLowercase(c) == IF c \in 65..90 THEN c + 32 ELSE c

\* char::is_ascii_alphabetic
IsAsciiAlphabetic(c) == c \in 65..90 \/ c \in 97..122

\* char::len_utf8
LenUtf8(c) == IF c < 128 THEN 1 ELSE IF c < 2048 THEN 2 ELSE IF c < 65536 THEN 3 ELSE 4

\* char::is_whitespace (the Unicode White_Space property), used by str::trim_*.
IsWhitespace(c) ==
    \/ c \in 9..13
    \/ c \in {32, 133, 160, 5760, 8232, 8233, 8239, 8287, 12288}
    \/ c \in 8192..8202

-----------------------------------------------------------------------------
(* Loops.  A `for` over a range, run in order, with early exit when the    *)
(* state's `done` is set; split in halves only to keep the evaluation      *)
(* stack shallow.                                                          *)

RECURSIVE Loop(_, _, _, _)
Loop(Body(_, _), st, lo, hi) ==
    IF st.done \/ lo > hi THEN st
    ELSE IF lo = hi THEN Body(st, lo)
    ELSE LET mid == (lo + hi) \div 2
             s1 == Loop(Body, st, lo, mid)
         IN  Loop(Body, s1, mid + 1, hi)

\* Mutation of StrLen: the length in characters instead of bytes.
StrLenInChars(s) == Len(s)

\* str::len: the length in bytes of the UTF-8 encoding.
StrLen(s) ==
    LET Body(st, i) == [st EXCEPT !.n = @ + LenUtf8(s[i])]
    IN  Loop(Body, [done |-> FALSE, n |-> 0], 1, Len(s)).n

\* str::ends_with(char)
EndsWith(s, c) == Len(s) > 0 /\ s[Len(s)] = c

\* str::starts_with(char)
StartsWith(s, c) == Len(s) > 0 /\ s[1] = c

\* str::trim_end: the characters up to the last one that is not white space.
TrimEnd(s) ==
    LET Body(st, k) ==
            IF IsWhitespace(s[Len(s) + 1 - k]) THEN st
            ELSE [st EXCEPT !.done = TRUE, !.last = Len(s) + 1 - k]
    IN  SubSeq(s, 1, Loop(Body, [done |-> FALSE, last |-> 0], 1, Len(s)).last)

\* str::trim_start: the characters from the first one that is not white space.
TrimStart(s) ==
    LET Body(st, i) ==
            IF IsWhitespace(s[i]) THEN st
            ELSE [st EXCEPT !.done = TRUE, !.first = i]
    IN  SubSeq(s, Loop(Body, [done |-> FALSE, first |-> Len(s) + 1], 1, Len(s)).first, Len(s))

-----------------------------------------------------------------------------
(* Results.                                                                *)

\* Ok(())
Ok == [kind |-> "Ok", path |-> <<>>, data |-> 0]

\* Err(FilePathError::kind(..)): `p` is the PathBuf payload (a sequence of
\* components), `d` the length or the character carried, 0 when there is none.
Err(k, p, d) == [kind |-> k, path |-> p, data |-> d]

\* A call that has not run yet.
Pending == [kind |-> "Pending", path |-> <<>>, data |-> 0]

\* No FilePathBuf made yet.
NoBuf == [made |-> "none", res |-> Pending, str |-> <<>>]

\* No operation applied yet.
NoOut == [op |-> "none"]

\* No comparison made and no hash computed yet.
NoCmp == [eq |-> "unset", hashed |-> 0, lhs_hash |-> <<>>, rhs_hash |-> <<>>]

-----------------------------------------------------------------------------
(* Reserved-name matcher: split_at_reserved_name.                          *)

\* Option::None
None == [some |-> FALSE]

\* AcceptResult::NoMatch
NoMatch == [res |-> "NoMatch", st |-> "None", start_offset |-> 0, end_offset |-> 0]

\* AcceptResult::Accepted, the matcher having moved to state `st`.
Accepted(st) == [res |-> "Accepted", st |-> st, start_offset |-> 0, end_offset |-> 0]

\* AcceptResult::AcceptedAndFinished((start_offset, end_offset))
AcceptedAndFinished(so, eo) ==
    [res |-> "AcceptedAndFinished", st |-> "None", start_offset |-> so, end_offset |-> eo]

IsDigit1To9(c) == c \in {"1", "2", "3", "4", "5", "6", "7", "8", "9"}

\* Mutation of MatchesCOMDigit: the digit 0 completes a name too.
MatchesDigit0To9(c) == c = "0" \/ IsDigit1To9(c)

\* '1'..='9' after COM (CONOrMOrINOrOUT::M).
MatchesCOMDigit(c) == IsDigit1To9(c)

\* '1'..='9' after LPT (LPT::T).
MatchesLPTDigit(c) == IsDigit1To9(c)

\* <AUX as ReservedNameMatch>::accept
AcceptAUX(st, c) ==
    CASE st = "AUX::A" /\ c = "u" -> Accepted("AUX::U")
      [] st = "AUX::U" /\ c = "x" -> AcceptedAndFinished(2, 0)
      [] OTHER -> NoMatch

\* <NUL as ReservedNameMatch>::accept
AcceptNUL(st, c) ==
    CASE st = "NUL::N" /\ c = "u" -> Accepted("NUL::U")
      [] st = "NUL::U" /\ c = "l" -> AcceptedAndFinished(2, 0)
      [] OTHER -> NoMatch

\* <PRN as ReservedNameMatch>::accept
AcceptPRN(st, c) ==
    CASE st = "PRN::P" /\ c = "r" -> Accepted("PRN::R")
      [] st = "PRN::R" /\ c = "n" -> AcceptedAndFinished(2, 0)
      [] OTHER -> NoMatch

\* A variant of AcceptCONEnd that takes the character after CON into the match.
AcceptCONEndInclusive(c) == AcceptedAndFinished(3, 0)

\* What CONOrMOrINOrOUT::N does with a character that is neither 'i' nor 'o'.
AcceptCONEnd(c) == AcceptedAndFinished(3, 1)

\* <CONOrMOrINOrOUT as ReservedNameMatch>::accept
AcceptCON(st, c) ==
    CASE st = "CON::C" /\ c = "o" -> Accepted("CON::O")
      [] st = "CON::O" /\ c = "n" -> Accepted("CON::N")
      [] st = "CON::O" /\ c = "m" -> Accepted("CON::M")
      [] st = "CON::N" /\ c = "i" -> Accepted("CON::NI")
      [] st = "CON::N" /\ c = "o" -> Accepted("CON::NO")
      [] st = "CON::N" /\ c \notin {"i", "o"} -> AcceptCONEnd(c)
      [] st = "CON::M" /\ MatchesCOMDigit(c) -> AcceptedAndFinished(3, 0)
      [] st = "CON::NI" /\ c = "n" -> Accepted("CON::NIN")
      [] st = "CON::NIN" /\ c = "$" -> AcceptedAndFinished(5, 0)
      [] st = "CON::NO" /\ c = "u" -> Accepted("CON::NOU")
      [] st = "CON::NOU" /\ c = "t" -> Accepted("CON::NOUT")
      [] st = "CON::NOUT" /\ c = "$" -> AcceptedAndFinished(6, 0)
      [] OTHER -> NoMatch

\* <LPT as ReservedNameMatch>::accept
AcceptLPT(st, c) ==
    CASE st = "LPT::L" /\ c = "p" -> Accepted("LPT::P")
      [] st = "LPT::P" /\ c = "t" -> Accepted("LPT::T")
      [] st = "LPT::T" /\ MatchesLPTDigit(c) -> AcceptedAndFinished(3, 0)
      [] OTHER -> NoMatch

\* <ReservedName as ReservedNameMatch>::accept: dispatch on the enum's variant.
Accept(st, c) ==
    CASE st \in {"AUX::A", "AUX::U"} -> AcceptAUX(st, c)
      [] st \in {"NUL::N", "NUL::U"} -> AcceptNUL(st, c)
      [] st \in {"PRN::P", "PRN::R"} -> AcceptPRN(st, c)
      [] st \in {"LPT::L", "LPT::P", "LPT::T"} -> AcceptLPT(st, c)
      [] OTHER -> AcceptCON(st, c)

\* A variant of finish that puts the start of CON one byte too far back.
FinishFarBack(st) ==
    IF st = "CON::N" THEN [some |-> TRUE, start_offset |-> 3, end_offset |-> 0]
    ELSE None

\* <ReservedName as ReservedNameMatch>::finish
Finish(st) ==
    IF st = "CON::N" THEN [some |-> TRUE, start_offset |-> 2, end_offset |-> 0]
    ELSE None

\* The `restart` closure: the state a character starts a match in, "None" for no match.
Restart(c) ==
    CASE c = "a" -> "AUX::A"
      [] c = "n" -> "NUL::N"
      [] c = "p" -> "PRN::P"
      [] c = "c" -> "CON::C"
      [] c = "l" -> "LPT::L"
      [] OTHER -> "None"

\* The characters of s that lie wholly inside the byte range [from, to):
\* what str::get_unchecked(from..to) borrows when both ends are character
\* boundaries.
ByteSlice(s, from, to) ==
    LET Body(st, i) ==
            LET next == st.off + LenUtf8(s[i])
            IN  IF st.off >= from /\ next <= to
                THEN [st EXCEPT !.off = next,
                                !.first = IF st.first = 0 THEN i ELSE @,
                                !.last = i]
                ELSE [st EXCEPT !.off = next]
        Slice(end) == IF end.first = 0 THEN <<>> ELSE SubSeq(s, end.first, end.last)
    IN  Slice(Loop(Body, [done |-> FALSE, off |-> 0, first |-> 0, last |-> 0], 1, Len(s)))

\* The `split_at_reserved_name_impl` closure: Some((l, r)), with the two byte
\* offsets the slices were cut at.
SplitAtReservedNameImpl(s, idx, start_offset, end_offset) ==
    LET l_end == idx - start_offset
        r_start == idx - end_offset + 1
    IN  [some |-> TRUE,
         l |-> ByteSlice(s, 0, l_end),
         r |-> ByteSlice(s, r_start, StrLen(s)),
         l_end |-> l_end,
         r_start |-> r_start]

\* One turn of the `for (idx, c) in component.char_indices()` loop.
ScanChar(s, st, i) ==
    LET Turn(c, lc, acc, next) ==
            IF IsAscii(c)
            THEN IF st.reserved_name # "None"
                 THEN CASE acc.res = "NoMatch" ->
                             [next EXCEPT !.reserved_name = Restart(lc)]
                        [] acc.res = "Accepted" ->
                             [next EXCEPT !.reserved_name = acc.st]
                        [] OTHER ->
                             [st EXCEPT !.done = TRUE,
                                        !.ret = SplitAtReservedNameImpl(
                                                    s, st.idx, acc.start_offset, acc.end_offset)]
                 ELSE [next EXCEPT !.reserved_name = Restart(lc)]
            ELSE [next EXCEPT !.reserved_name = "None"]
    IN  Turn(s[i],
             Chr(ToAsciiLowercase(s[i])),
             Accept(st.reserved_name, Chr(ToAsciiLowercase(s[i]))),
             [st EXCEPT !.last_idx = st.idx, !.idx = st.idx + LenUtf8(s[i])])

\* split_at_reserved_name
split_at_reserved_name(s) ==
    LET Body(st, i) == ScanChar(s, st, i)
        AfterLoop(end, fin) ==
            IF end.done THEN end.ret
            ELSE IF fin.some
                 THEN SplitAtReservedNameImpl(s, end.last_idx, fin.start_offset, fin.end_offset)
                 ELSE None
        Scanned(end) == AfterLoop(end, Finish(end.reserved_name))
    IN  Scanned(Loop(Body,
                     [done |-> FALSE, reserved_name |-> "None", idx |-> 0,
                      last_idx |-> 0, ret |-> None],
                     1, Len(s)))

-----------------------------------------------------------------------------
(* Component validator.                                                    *)

\* The characters validate_normal_path_component rejects besides the ASCII controls.
invalid_characters ==
    {Ord("\\"), Ord("/"), Ord(":"), Ord("*"), Ord("?"), Ord("\""), Ord("<"), Ord(">"), Ord("|")}

\* The first character of s the `for c in component.chars()` loop rejects: 0 if none.
FirstInvalidCharacter(s) ==
    LET Body(st, i) ==
            IF IsAsciiControl(s[i]) \/ s[i] \in invalid_characters
            THEN [st EXCEPT !.done = TRUE, !.at = i]
            ELSE st
    IN  Loop(Body, [done |-> FALSE, at |-> 0], 1, Len(s)).at

\* Mutation of IsReservedName: the text before the name is not trimmed.
IsReservedNameUntrimmed(s) ==
    LET Trimmed(l, r) == l = <<>> /\ (r = <<>> \/ StartsWith(r, Ord(".")))
        Test(sp) == sp.some /\ Trimmed(sp.l, TrimStart(sp.r))
    IN  Test(split_at_reserved_name(s))

\* The reserved-name test of validate_normal_path_component (its last check).
IsReservedName(s) ==
    LET Trimmed(l, r) == l = <<>> /\ (r = <<>> \/ StartsWith(r, Ord(".")))
        Test(sp) == sp.some /\ Trimmed(TrimEnd(sp.l), TrimStart(sp.r))
    IN  Test(split_at_reserved_name(s))

\* Mutation of validate_normal_path_component: the reserved-name check runs
\* before the trailing-period and trailing-space checks.
validate_reserved_name_first(s, f) ==
    LET Checks(len, bad) ==
            IF len > MAX_COMPONENT_LEN THEN Err("ComponentTooLong", f, len)
            ELSE IF IsReservedName(s) THEN Err("ReservedName", f, 0)
            ELSE IF EndsWith(s, Ord(".")) THEN Err("ComponentEndsWithAPeriod", f, 0)
            ELSE IF EndsWith(s, Ord(" ")) THEN Err("ComponentEndsWithASpace", f, 0)
            ELSE IF bad # 0 THEN Err("InvalidCharacter", f, s[bad])
            ELSE Ok
    IN  Checks(StrLen(s), FirstInvalidCharacter(s))

\* validate_normal_path_component(component, f): f is the value the closure returns.
validate_normal_path_component(s, f) ==
    LET Checks(len, bad) ==
            IF len > MAX_COMPONENT_LEN THEN Err("ComponentTooLong", f, len)
            ELSE IF EndsWith(s, Ord(".")) THEN Err("ComponentEndsWithAPeriod", f, 0)
            ELSE IF EndsWith(s, Ord(" ")) THEN Err("ComponentEndsWithASpace", f, 0)
            ELSE IF bad # 0 THEN Err("InvalidCharacter", f, s[bad])
            ELSE IF IsReservedName(s) THEN Err("ReservedName", f, 0)
            ELSE Ok
    IN  Checks(StrLen(s), FirstInvalidCharacter(s))

-----------------------------------------------------------------------------
(* Inputs of the component validator.                                      *)

\* All concatenations of 1..n strings of `tokens`.
RECURSIVE Concats(_, _)
Concats(tokens, n) ==
    IF n = 0 THEN {}
    ELSE LET shorter == Concats(tokens, n - 1)
         IN  tokens \cup shorter \cup {s \o t : s \in shorter, t \in tokens}

\* n copies of the character c.
Pad(c, n) == [i \in 1..n |-> c]

\* char::to_ascii_uppercase, over a whole string.
ToUpper(s) == [i \in 1..Len(s) |-> IF s[i] \in 97..122 THEN s[i] - 32 ELSE s[i]]

\* The names split_at_reserved_name looks for, as its comment lists them, in lower case.
reserved_names ==
    { Str(<<"a", "u", "x">>), Str(<<"c", "o", "n">>), Str(<<"n", "u", "l">>),
      Str(<<"p", "r", "n">>),
      Str(<<"c", "o", "n", "i", "n", "$">>), Str(<<"c", "o", "n", "o", "u", "t", "$">>) }
      \cup {Str(<<"c", "o", "m">>) \o <<d>> : d \in 49..57}
      \cup {Str(<<"l", "p", "t">>) \o <<d>> : d \in 49..57}

\* Names that miss a reserved name by a little: digit 0, no digit, a cut-off
\* CONIN$ / CONOUT$, a cut-off AUX.
NearNames ==
    { Str(<<"c", "o", "m", "0">>), Str(<<"l", "p", "t", "0">>),
      Str(<<"c", "o", "m">>), Str(<<"l", "p", "t">>), Str(<<"a", "u">>),
      Str(<<"c", "o", "n", "i">>), Str(<<"c", "o", "n", "i", "n">>),
      Str(<<"c", "o", "n", "o">>), Str(<<"c", "o", "n", "o", "u">>),
      Str(<<"c", "o", "n", "o", "u", "t">>) }

\* What precedes a name in a component: nothing, spaces, a letter, a period,
\* a two-byte letter (U+00E9), a two-byte white space (U+00A0).
NamePrefixes ==
    { <<>>, Str(<<" ">>), Str(<<" ", " ">>), Str(<<"a">>), Str(<<".">>), <<233>>, <<160>> }

\* What follows it: nothing, an extension with and without spaces before it,
\* a period, a space, a letter, a digit, a '$', U+00A0 and an extension,
\* a forbidden character.
NameSuffixes ==
    { <<>>, Str(<<".">>), Str(<<" ">>), Str(<<".", "a">>), Str(<<" ", ".", "a">>),
      Str(<<" ", " ", ".", "a">>), Str(<<" ", ".", " ", "a">>), Str(<<"a">>), Str(<<"1">>),
      Str(<<"$">>), <<160>> \o Str(<<".", "a">>), Str(<<"?">>) }

\* Components built around a reserved or nearly reserved name, in lower and upper case.
NameComponents ==
    LET cores == reserved_names \cup NearNames
    IN  {p \o n \o q : p \in NamePrefixes,
                       n \in cores \cup {ToUpper(c) : c \in cores},
                       q \in NameSuffixes}

\* Pieces of components put together freely: separators of name and
\* extension, plain characters, (parts of) reserved names in mixed case, a
\* forbidden character, an ASCII control (DEL), a two-byte letter (U+00E9).
CompTokens ==
    { Str(<<" ">>), Str(<<".">>), Str(<<"a">>), Str(<<"1">>), Str(<<"$">>),
      Str(<<"A", "u", "X">>), Str(<<"C", "O", "N">>), Str(<<"c", "O", "m">>),
      Str(<<"I", "N">>), Str(<<"?">>), <<127>>, <<233>> }

\* Components around the length limit: one-byte or two-byte padding, then a token or nothing.
LongComponents ==
    LET ones == (MAX_COMPONENT_LEN - PadSlack)..(MAX_COMPONENT_LEN + PadSlack)
        twos == ((MAX_COMPONENT_LEN \div 2) - PadSlack)..((MAX_COMPONENT_LEN \div 2) + PadSlack)
        tails == CompTokens \cup {<<>>}
    IN  {Pad(Ord("a"), n) \o t : n \in ones, t \in tails}
          \cup {Pad(233, n) \o t : n \in twos, t \in tails}

\* Runs of characters str::trim_start removes: ASCII spaces, U+00A0, U+3000
\* and mixtures of them.
WhitespaceRuns ==
    { <<32>>, <<32, 32>>, <<160>>, <<12288>>, <<160, 160>>, <<32, 160>>, <<160, 32>>,
      <<12288, 32>> }

\* A reserved name, a run of white space and the extension '.txt'.
PaddedNames ==
    {n \o w \o Str(<<".", "t", "x", "t">>) :
        n \in reserved_names \cup {ToUpper(c) : c \in reserved_names}, w \in WhitespaceRuns}

ComponentInputs ==
    Concats(CompTokens, MaxCompTokens) \cup NameComponents \cup LongComponents
        \cup PaddedNames

-----------------------------------------------------------------------------
(* The component validator as a state machine: a component is chosen, then *)
(* validated once.                                                         *)

Idle ==
    /\ path = <<>> /\ op = "idle" /\ result = [res |-> Pending, str |-> <<>>]
    /\ lhs = <<>> /\ rhs = <<>> /\ cmp = NoCmp
    /\ buf = NoBuf /\ out = NoOut /\ builder = <<>>

Init ==
    /\ component \in ComponentInputs
    /\ vresult = Pending
    /\ Idle

\* validate_normal_path_component(component, || PathBuf::new())
Validate ==
    /\ component # <<>>
    /\ vresult = Pending
    /\ vresult' = validate_normal_path_component(component, <<>>)
    /\ UNCHANGED <<component, path, op, result, lhs, rhs, cmp, buf, out, builder>>

\* is_valid_path_component(component)
IsValidPathComponent ==
    /\ component # <<>>
    /\ vresult = Pending
    /\ vresult' =
          IF component = Str(<<".">>) \/ component = Str(<<".", ".">>)
          THEN [kind |-> "false", path |-> <<>>, data |-> 0]
          ELSE IF validate_normal_path_component(component, <<>>) = Ok
               THEN [kind |-> "true", path |-> <<>>, data |-> 0]
               ELSE [kind |-> "false", path |-> <<>>, data |-> 0]
    /\ UNCHANGED <<component, path, op, result, lhs, rhs, cmp, buf, out, builder>>

Next == Validate \/ IsValidPathComponent

Spec == Init /\ [][Next]_vars

-----------------------------------------------------------------------------
(* std::path::Path::components, for the Windows path syntax, as far as     *)
(* iterate_path and the component iterators depend on it.                  *)

\* SEPARATOR_CHAR, the separator of a built path.
SEPARATOR_CHAR == Ord("/")

\* std::path::is_separator
IsSep(c) == Chr(c) = "/" \/ Chr(c) = "\\"

\* The index of the first separator of p at or after pos, Len(p) + 1 if there is none.
SegmentEnd(p, pos) ==
    LET Body(st, i) == IF IsSep(p[i]) THEN [st EXCEPT !.done = TRUE, !.at = i] ELSE st
    IN  Loop(Body, [done |-> FALSE, at |-> Len(p) + 1], pos, Len(p)).at

\* Whether a segment of p ends before index i: at a separator or at the end of p.
AtSegmentEnd(p, i) == i > Len(p) \/ IsSep(p[i])

\* A variant of HasPrefix that recognizes drive prefixes only.
HasDrivePrefixOnly(p) == Len(p) >= 2 /\ IsAsciiAlphabetic(p[1]) /\ p[2] = Ord(":")

\* Whether p starts with a prefix: a drive ("C:"), or after two separators a
\* device namespace ("\\.\dev"), a verbatim prefix ("\\?\", backslashes
\* only) or a UNC prefix ("\\server\share", server and share non-empty).
HasPrefix(p) ==
    \/ Len(p) >= 2 /\ IsAsciiAlphabetic(p[1]) /\ p[2] = Ord(":")
    \/ /\ Len(p) >= 2 /\ IsSep(p[1]) /\ IsSep(p[2])
       /\ \/ Len(p) >= 4 /\ p[3] = Ord(".") /\ IsSep(p[4])
          \/ /\ Len(p) >= 4 /\ p[3] = Ord("?")
             /\ \A i \in {1, 2, 4} : p[i] = Ord("\\")
          \/ LET serverEnd == SegmentEnd(p, 3)
                 shareEnd == SegmentEnd(p, serverEnd + 1)
             IN  serverEnd > 3 /\ serverEnd < Len(p) /\ shareEnd > serverEnd + 1

\* The component the iterator yields before the body of the path, if any:
\* Prefix, else RootDir for a leading separator, else CurDir for a leading
\* "." that is the whole path or is followed by a separator.
FrontComponent(p) ==
    IF HasPrefix(p) THEN "Prefix"
    ELSE IF Len(p) >= 1 /\ IsSep(p[1]) THEN "RootDir"
    ELSE IF /\ Len(p) >= 1 /\ p[1] = Ord(".")
            /\ (Len(p) = 1 \/ IsSep(p[2]))
         THEN "CurDir"
    ELSE "None"

\* A variant of ParseSingleComponent that yields CurDir for every "." segment.
ParseSingleComponentKeepCurDir(seg) ==
    IF Len(seg) = 0 THEN "None"
    ELSE IF Len(seg) = 1 /\ Chr(seg[1]) = "." THEN "CurDir"
    ELSE IF Len(seg) = 2 /\ Chr(seg[1]) = "." /\ Chr(seg[2]) = "." THEN "ParentDir"
    ELSE "Normal"

\* Components::parse_single_component: what a segment between separators
\* yields: nothing for "" and for "." (normalized away), ParentDir, or Normal.
ParseSingleComponent(seg) ==
    IF Len(seg) = 0 THEN "None"
    ELSE IF Len(seg) = 1 /\ Chr(seg[1]) = "." THEN "None"
    ELSE IF Len(seg) = 2 /\ Chr(seg[1]) = "." /\ Chr(seg[2]) = "." THEN "ParentDir"
    ELSE "Normal"

\* OsStr::to_str: None when the segment holds an unpaired surrogate.
IsUtf8(seg) == \A i \in 1..Len(seg) : seg[i] \notin 55296..57343

\* The first n components of an input whose components are all Normal:
\* `path.components().take(n)`.
TakeComponents(p, n) ==
    LET Take(st, i, seg) ==
            IF ParseSingleComponent(seg) = "None"
            THEN [st EXCEPT !.start = i + 1]
            ELSE [st EXCEPT !.start = i + 1, !.taken = Append(@, seg)]
        Body(st, i) ==
            IF Len(st.taken) >= n THEN [st EXCEPT !.done = TRUE]
            ELSE IF ~AtSegmentEnd(p, i) THEN st
            ELSE Take(st, i, SubSeq(p, st.start, i - 1))
    IN  Loop(Body, [done |-> FALSE, start |-> 1, taken |-> <<>>], 1, Len(p) + 1).taken

-----------------------------------------------------------------------------
(* iterate_path, FilePath::new.                                            *)

\* PathBuf::push of one component onto a PathBuf, which is kept as the
\* sequence of the strings it was built from (PathBufs are compared by
\* components).  A pushed path that has a prefix replaces the PathBuf: a
\* component that starts with a drive ("C:") leaves only itself.
PathBufPush(pathbuf, comp) ==
    IF HasPrefix(comp) THEN <<comp>> ELSE Append(pathbuf, comp)

\* collect::<PathBuf>() of an iterator of components: one push per component.
CollectPathBuf(comps) ==
    LET Body(st, k) == [st EXCEPT !.pathbuf = PathBufPush(@, comps[k])]
    IN  Loop(Body, [done |-> FALSE, pathbuf |-> <<>>], 1, Len(comps)).pathbuf

\* The `get_path` closure of iterate_path.
get_path(p, idx, include_self) ==
    CollectPathBuf(TakeComponents(p, IF include_self THEN idx + 1 ELSE idx))

\* A variant of PathLenVerdict that rejects a length of MAX_PATH_LEN too.
PathLenVerdictInclusive(path_len) ==
    IF path_len >= MAX_PATH_LEN
    THEN [res |-> Err("PathTooLong", <<>>, path_len), val |-> FALSE]
    ELSE [res |-> Ok, val |-> path_len > 0]

\* The check iterate_path makes after its loop.
PathLenVerdict(path_len) ==
    IF path_len > MAX_PATH_LEN
    THEN [res |-> Err("PathTooLong", <<>>, path_len), val |-> FALSE]
    ELSE [res |-> Ok, val |-> path_len > 0]

\* A variant of IteratePathStep that records an error and goes on to the
\* next component, so that the last error found is the one returned.
IteratePathStepLastError(p, st, i) ==
    LET Fail(e) == [st EXCEPT !.res = e, !.start = i + 1, !.idx = @ + 1]
        Match(seg, kind, v) ==
            IF kind = "None" THEN [st EXCEPT !.start = i + 1]
            ELSE IF kind = "CurDir"
                 THEN Fail(Err("CurrentDirectory", get_path(p, st.idx, FALSE), 0))
            ELSE IF kind = "ParentDir"
                 THEN Fail(Err("ParentDirectory", get_path(p, st.idx, FALSE), 0))
            ELSE IF ~IsUtf8(seg)
                 THEN Fail(Err("InvalidUTF8", get_path(p, st.idx, FALSE), 0))
            ELSE IF seg = <<>>
                 THEN Fail(Err("EmptyComponent", get_path(p, st.idx, FALSE), 0))
            ELSE IF v # Ok THEN Fail(v)
            ELSE [st EXCEPT !.start = i + 1,
                            !.idx = @ + 1,
                            !.path_len = (IF @ # 0 THEN @ + 1 ELSE @) + StrLen(seg)]
        Component(seg) ==
            Match(seg,
                  ParseSingleComponent(seg),
                  validate_normal_path_component(seg, get_path(p, st.idx, TRUE)))
    IN  Component(SubSeq(p, st.start, i - 1))

\* A variant of IteratePathStep that compares the running length with
\* MAX_PATH_LEN after each component and fails as soon as it is exceeded.
IteratePathStepIncremental(p, st, i) ==
    LET Advance(len) ==
            IF len > MAX_PATH_LEN
            THEN [st EXCEPT !.done = TRUE, !.res = Err("PathTooLong", <<>>, len)]
            ELSE [st EXCEPT !.start = i + 1, !.idx = @ + 1, !.path_len = len]
        Match(seg, kind, v) ==
            IF kind = "None" THEN [st EXCEPT !.start = i + 1]
            ELSE IF kind = "CurDir"
                 THEN [st EXCEPT !.done = TRUE,
                                 !.res = Err("CurrentDirectory", get_path(p, st.idx, FALSE), 0)]
            ELSE IF kind = "ParentDir"
                 THEN [st EXCEPT !.done = TRUE,
                                 !.res = Err("ParentDirectory", get_path(p, st.idx, FALSE), 0)]
            ELSE IF ~IsUtf8(seg)
                 THEN [st EXCEPT !.done = TRUE,
                                 !.res = Err("InvalidUTF8", get_path(p, st.idx, FALSE), 0)]
            ELSE IF seg = <<>>
                 THEN [st EXCEPT !.done = TRUE,
                                 !.res = Err("EmptyComponent", get_path(p, st.idx, FALSE), 0)]
            ELSE IF v # Ok THEN [st EXCEPT !.done = TRUE, !.res = v]
            ELSE Advance((IF st.path_len # 0 THEN st.path_len + 1 ELSE st.path_len)
                            + StrLen(seg))
        Component(seg) ==
            Match(seg,
                  ParseSingleComponent(seg),
                  validate_normal_path_component(seg, get_path(p, st.idx, TRUE)))
    IN  Component(SubSeq(p, st.start, i - 1))

\* iterate_path's loop body for the segment of p that ends before index i
\* (st.start is where the segment starts, st.idx the `enumerate` index).
IteratePathStep(p, st, i) ==
    LET Match(seg, kind, v) ==
            IF kind = "None" THEN [st EXCEPT !.start = i + 1]
            ELSE IF kind = "CurDir"
                 THEN [st EXCEPT !.done = TRUE,
                                 !.res = Err("CurrentDirectory", get_path(p, st.idx, FALSE), 0)]
            ELSE IF kind = "ParentDir"
                 THEN [st EXCEPT !.done = TRUE,
                                 !.res = Err("ParentDirectory", get_path(p, st.idx, FALSE), 0)]
            ELSE IF ~IsUtf8(seg)
                 THEN [st EXCEPT !.done = TRUE,
                                 !.res = Err("InvalidUTF8", get_path(p, st.idx, FALSE), 0)]
            ELSE IF seg = <<>>
                 THEN [st EXCEPT !.done = TRUE,
                                 !.res = Err("EmptyComponent", get_path(p, st.idx, FALSE), 0)]
            ELSE IF v # Ok THEN [st EXCEPT !.done = TRUE, !.res = v]
            ELSE [st EXCEPT !.start = i + 1,
                            !.idx = @ + 1,
                            !.path_len = (IF @ # 0 THEN @ + 1 ELSE @) + StrLen(seg)]
        Component(seg) ==
            Match(seg,
                  ParseSingleComponent(seg),
                  validate_normal_path_component(seg, get_path(p, st.idx, TRUE)))
    IN  Component(SubSeq(p, st.start, i - 1))

\* iterate_path: Result<bool, FilePathError>, as [res, val].
iterate_path(p) ==
    LET Body(st, i) == IF AtSegmentEnd(p, i) THEN IteratePathStep(p, st, i) ELSE st
        Return(front, end) ==
            IF front = "Prefix" THEN [res |-> Err("PrefixedPath", <<>>, 0), val |-> FALSE]
            ELSE IF front = "RootDir"
                 THEN [res |-> Err("RootDirectory", <<>>, 0), val |-> FALSE]
            ELSE IF front = "CurDir"
                 THEN [res |-> Err("CurrentDirectory", get_path(p, 0, FALSE), 0), val |-> FALSE]
            ELSE IF end.res # Ok THEN [res |-> end.res, val |-> FALSE]
            ELSE PathLenVerdict(end.path_len)
    IN  Return(FrontComponent(p),
               Loop(Body,
                    [done |-> FALSE, start |-> 1, idx |-> 0, path_len |-> 0, res |-> Ok],
                    1, Len(p) + 1))

\* A variant of validate_filepath that accepts a path of no components.
validate_filepath_allow_empty(p) ==
    LET NonEmpty(it) == IF it.res # Ok THEN it.res ELSE Ok
    IN  NonEmpty(iterate_path(p))

\* FilePath::validate_filepath
validate_filepath(p) ==
    LET NonEmpty(it) ==
            IF it.res # Ok THEN it.res
            ELSE IF it.val THEN Ok
            ELSE Err("EmptyPath", <<>>, 0)
    IN  NonEmpty(iterate_path(p))

\* FilePath::new: the error, or a FilePath that borrows the input unchanged.
FilePathNew(p) ==
    LET Borrow(v) == [res |-> v, str |-> IF v = Ok THEN p ELSE <<>>]
    IN  Borrow(validate_filepath(p))

-----------------------------------------------------------------------------
(* Component iteration of a FilePath, FilePathBuilder, FilePathBuf::new.   *)

\* FilePath::components().count(): the iterator yields the Normal components.
NumComponents(p) ==
    LET Body(st, i) ==
            IF ~AtSegmentEnd(p, i) THEN st
            ELSE IF ParseSingleComponent(SubSeq(p, st.start, i - 1)) = "None"
                 THEN [st EXCEPT !.start = i + 1]
            ELSE [st EXCEPT !.start = i + 1, !.n = @ + 1]
    IN  Loop(Body, [done |-> FALSE, start |-> 1, n |-> 0], 1, Len(p) + 1).n

\* FilePath::components(), collected root to leaf.
Components(p) == TakeComponents(p, Len(p))

\* A variant of append_path_component_to_string that pushes the separator
\* twice.
append_path_component_double_separator(comp, string) ==
    IF string # <<>> THEN string \o (<<SEPARATOR_CHAR, SEPARATOR_CHAR>> \o comp) ELSE comp

\* A variant of append_path_component_to_string that pushes the separator
\* before the first component too.
append_path_component_always_separated(comp, string) ==
    string \o (<<SEPARATOR_CHAR>> \o comp)

\* append_path_component_to_string
append_path_component_to_string(comp, string) ==
    IF string # <<>> THEN string \o (<<SEPARATOR_CHAR>> \o comp) ELSE comp

\* append_file_path_to_string(path, string): [res, string], the string as
\* the call leaves it.
append_file_path_to_string(p, string) ==
    LET Push(st, i, seg, len) ==
            IF ParseSingleComponent(seg) = "None"
            THEN [st EXCEPT !.start = i + 1]
            ELSE [st EXCEPT !.start = i + 1,
                            !.path_len = len,
                            !.string = IF len <= MAX_PATH_LEN
                                       THEN append_path_component_to_string(seg, @)
                                       ELSE @]
        Body(st, i) ==
            IF ~AtSegmentEnd(p, i) THEN st
            ELSE Push(st, i,
                      SubSeq(p, st.start, i - 1),
                      (IF st.path_len # 0 THEN st.path_len + 1 ELSE st.path_len)
                         + StrLen(SubSeq(p, st.start, i - 1)))
        Return(end) ==
            [res |-> IF end.path_len > MAX_PATH_LEN
                     THEN Err("PathTooLong", <<>>, end.path_len)
                     ELSE Ok,
             string |-> end.string]
    IN  Return(Loop(Body,
                    [done |-> FALSE, start |-> 1, path_len |-> StrLen(string),
                     string |-> string],
                    1, Len(p) + 1))

\* A variant of BuilderPush that appends the raw path as it is.
BuilderPushRaw(string, p) ==
    LET Extend(fp) ==
            IF fp.res # Ok THEN [res |-> fp.res, string |-> string]
            ELSE [res |-> Ok, string |-> append_path_component_to_string(p, string)]
    IN  Extend(FilePathNew(p))

\* FilePathBuilder::push(path) on a builder holding `string`: [res, string].
BuilderPush(string, p) ==
    LET Extend(fp) ==
            IF fp.res # Ok THEN [res |-> fp.res, string |-> string]
            ELSE append_file_path_to_string(fp.str, string)
    IN  Extend(FilePathNew(p))

\* FilePathBuf::new: the error, or the FilePathBuf's string.
FilePathBufNew(p) ==
    LET Build(pushed) ==
            IF pushed.res # Ok THEN [res |-> pushed.res, str |-> <<>>]
            ELSE IF pushed.string = <<>> THEN [res |-> Err("EmptyPath", <<>>, 0), str |-> <<>>]
            ELSE [res |-> Ok, str |-> pushed.string]
    IN  Build(BuilderPush(<<>>, p))

-----------------------------------------------------------------------------
(* Inputs of the constructors.                                             *)

\* n copies of the string `piece`.
Rep(piece, n) == [i \in 1..(n * Len(piece)) |-> piece[((i - 1) % Len(piece)) + 1]] \o <<>>

\* Pieces of raw paths: the two separators, a period (two make ".."), a
\* letter, a drive prefix (or, after a letter, a forbidden ':'), a reserved name.
PathTokens ==
    { Str(<<"/">>), Str(<<"\\">>), Str(<<".">>), Str(<<"a">>),
      Str(<<"C", ":">>), Str(<<"n", "u", "l">>) }

\* Paths of one-byte components around the total length limit: "a/" taken
\* MAX_NUM_COMPONENTS + 1 times (65535 bytes without the trailing
\* separator), the same after one two-byte component (65536), and "a/"
\* taken MAX_NUM_COMPONENTS + 2 times (65537).
LongPaths ==
    LET piece == Str(<<"a", "/">>)
    IN  { Rep(piece, MAX_NUM_COMPONENTS + 1),
          Str(<<"a", "a", "/">>) \o Rep(piece, MAX_NUM_COMPONENTS),
          Rep(piece, MAX_NUM_COMPONENTS + 2) }

\* A path of valid components whose total length is already over
\* MAX_PATH_LEN (1025 components of 63 bytes: 65599) when a last component,
\* a reserved name, follows.
LongInvalidPaths ==
    LET piece == Pad(Ord("a"), MAX_COMPONENT_LEN \div 4) \o Str(<<"/">>)
    IN  { Rep(piece, (MAX_PATH_LEN + 1) \div Len(piece) + 1) \o Str(<<"n", "u", "l">>) }

PathInputs ==
    {<<>>} \cup Concats(PathTokens, MaxPathTokens) \cup LongPaths \cup LongInvalidPaths

-----------------------------------------------------------------------------
(* The constructors as a state machine: a raw path is chosen, then one of  *)
(* FilePath::new and FilePathBuf::new runs on it.                          *)

\* No constructor has run.
NoResult == [res |-> Pending, str |-> <<>>]

InitPath ==
    /\ path \in PathInputs
    /\ op = "none"
    /\ result = NoResult
    /\ component = <<>> /\ vresult = Pending
    /\ buf = NoBuf /\ out = NoOut /\ builder = <<>>
    /\ lhs = <<>> /\ rhs = <<>> /\ cmp = NoCmp

\* FilePath::new(path)
NewFilePath ==
    /\ op = "none"
    /\ op' = "FilePath::new"
    /\ result' = FilePathNew(path)
    /\ UNCHANGED <<component, vresult, path, lhs, rhs, cmp, buf, out, builder>>

\* FilePathBuf::new(path)
NewFilePathBuf ==
    /\ op = "none"
    /\ op' = "FilePathBuf::new"
    /\ result' = FilePathBufNew(path)
    /\ UNCHANGED <<component, vresult, path, lhs, rhs, cmp, buf, out, builder>>

NextPath == NewFilePath \/ NewFilePathBuf

SpecPath == InitPath /\ [][NextPath]_vars

-----------------------------------------------------------------------------
(* Equality and hashing of FilePath and FilePathBuf.                       *)

\* The UTF-8 encoding of one character.
Utf8Encode(c) ==
    IF c < 128 THEN <<c>>
    ELSE IF c < 2048 THEN <<192 + (c \div 64), 128 + (c % 64)>>
    ELSE IF c < 65536
         THEN <<224 + (c \div 4096), 128 + ((c \div 64) % 64), 128 + (c % 64)>>
    ELSE <<240 + (c \div 262144), 128 + ((c \div 4096) % 64),
           128 + ((c \div 64) % 64), 128 + (c % 64)>>

\* str::as_bytes
AsBytes(s) ==
    LET Body(st, i) == [st EXCEPT !.bytes = @ \o Utf8Encode(s[i])]
    IN  Loop(Body, [done |-> FALSE, bytes |-> <<>>], 1, Len(s)).bytes

\* A variant of FilePathEq that stops, as `zip` does, when either path runs
\* out of components.
FilePathEqZip(a, b) ==
    LET Compare(ca, cb) ==
            \A k \in 1..Len(ca) :
                k <= Len(cb) => ca[Len(ca) + 1 - k] = cb[Len(cb) + 1 - k]
    IN  Compare(Components(a), Components(b))

\* <FilePath as PartialEq>::eq: Iterator::eq over the components, leaf to root.
FilePathEq(a, b) ==
    LET Compare(ca, cb) ==
            LET Body(st, k) ==
                    IF k > Len(ca) /\ k > Len(cb) THEN [st EXCEPT !.done = TRUE]
                    ELSE IF k > Len(ca) \/ k > Len(cb)
                         THEN [st EXCEPT !.done = TRUE, !.eq = FALSE]
                    ELSE IF ca[Len(ca) + 1 - k] # cb[Len(cb) + 1 - k]
                         THEN [st EXCEPT !.done = TRUE, !.eq = FALSE]
                    ELSE st
            IN  Loop(Body, [done |-> FALSE, eq |-> TRUE], 1, Len(ca) + Len(cb) + 1).eq
    IN  Compare(Components(a), Components(b))

\* A variant of FilePathHash that writes the bytes of the whole string.
FilePathHashRaw(a) == AsBytes(a)

\* <FilePath as Hash>::hash: the bytes the hasher receives, one `write` per
\* component, root to leaf.
FilePathHash(a) ==
    LET Write(comps) ==
            LET Body(st, k) == [st EXCEPT !.bytes = @ \o AsBytes(comps[k])]
            IN  Loop(Body, [done |-> FALSE, bytes |-> <<>>], 1, Len(comps)).bytes
    IN  Write(Components(a))

\* `l == r` for two paths, each a FilePath or a FilePathBuf: the derived
\* PartialEq of FilePathBuf compares the strings; any other pair is compared
\* as FilePaths (a FilePathBuf through Borrow<FilePath>).
PathEq(l, r) ==
    IF l.kind = "FilePathBuf" /\ r.kind = "FilePathBuf"
    THEN l.str = r.str
    ELSE FilePathEq(l.str, r.str)

\* <FilePathBuf as Hash>::hash delegates to the FilePath's.
PathHash(v) == FilePathHash(v.str)

-----------------------------------------------------------------------------
(* Two valid paths compared and hashed.                                    *)

\* Pieces of raw paths for the comparisons.
PairTokens == { Str(<<"a">>), Str(<<"/">>), Str(<<"\\">>), Str(<<".">>) }

\* The raw paths FilePath::new accepts.
ValidRawPaths == {p \in Concats(PairTokens, MaxPairTokens) : FilePathNew(p).res = Ok}

\* Valid paths of both kinds: a FilePath borrows the raw path, a FilePathBuf
\* owns the string FilePathBuf::new builds from it.
PairInputs ==
    {[kind |-> "FilePath", str |-> p] : p \in ValidRawPaths}
       \cup {[kind |-> "FilePathBuf", str |-> FilePathBufNew(p).str] : p \in ValidRawPaths}

InitPair ==
    /\ lhs \in PairInputs
    /\ rhs \in PairInputs
    /\ cmp = NoCmp
    /\ op = "pair" /\ path = <<>> /\ result = NoResult
    /\ component = <<>> /\ vresult = Pending
    /\ buf = NoBuf /\ out = NoOut /\ builder = <<>>

\* lhs == rhs
Eq ==
    /\ cmp.eq = "unset"
    /\ cmp' = [cmp EXCEPT !.eq = IF PathEq(lhs, rhs) THEN "true" ELSE "false"]
    /\ UNCHANGED <<component, vresult, path, op, result, lhs, rhs, buf, out, builder>>

\* lhs.hash(&mut hl)
HashLhs ==
    /\ cmp.eq # "unset" /\ cmp.hashed = 0
    /\ cmp' = [cmp EXCEPT !.hashed = 1, !.lhs_hash = PathHash(lhs)]
    /\ UNCHANGED <<component, vresult, path, op, result, lhs, rhs, buf, out, builder>>

\* rhs.hash(&mut hr)
HashRhs ==
    /\ cmp.hashed = 1
    /\ cmp' = [cmp EXCEPT !.hashed = 2, !.rhs_hash = PathHash(rhs)]
    /\ UNCHANGED <<component, vresult, path, op, result, lhs, rhs, buf, out, builder>>

NextPair == Eq \/ HashLhs \/ HashRhs

SpecPair == InitPair /\ [][NextPair]_vars

-----------------------------------------------------------------------------
(* FilePath::to_owned, FilePathBuilder::build, FilePathBufIter,            *)
(* file_path_and_name.                                                     *)

\* A variant of to_owned that copies the string of the FilePath as it is.
FilePathToOwnedRaw(p) == p

\* impl ToOwned for FilePath: the string of the FilePathBuf.
FilePathToOwned(p) ==
    LET Join(comps) ==
            LET Body(st, k) ==
                    [st EXCEPT !.string = IF @ # <<>>
                                          THEN @ \o (<<SEPARATOR_CHAR>> \o comps[k])
                                          ELSE comps[k]]
            IN  Loop(Body, [done |-> FALSE, string |-> <<>>], 1, Len(comps)).string
    IN  Join(Components(p))

\* FilePathBuilder::build: Option<FilePathBuf>.
FilePathBuilderBuild(string) ==
    IF string = <<>> THEN [some |-> FALSE, str |-> <<>>]
    ELSE [some |-> TRUE, str |-> string]

\* str::find(c): the index of the first c in s, 0 when there is none.
Find(s, c) ==
    LET Body(st, i) == IF s[i] = c THEN [done |-> TRUE, at |-> i] ELSE st
    IN  Loop(Body, [done |-> FALSE, at |-> 0], 1, Len(s)).at

\* str::rfind(c): the index of the last c in s, 0 when there is none.
RFind(s, c) ==
    LET Body(st, i) ==
            IF s[Len(s) + 1 - i] = c THEN [done |-> TRUE, at |-> Len(s) + 1 - i] ELSE st
    IN  Loop(Body, [done |-> FALSE, at |-> 0], 1, Len(s)).at

\* A variant of pop_path_component_front that splits at the last separator.
pop_path_component_front_at_last(s) ==
    LET Split(k) ==
            IF k = 0 THEN [comp |-> s, some |-> FALSE, rest |-> <<>>]
            ELSE [comp |-> SubSeq(s, 1, k - 1),
                  some |-> k < Len(s),
                  rest |-> SubSeq(s, k + 1, Len(s))]
    IN  Split(RFind(s, SEPARATOR_CHAR))

\* pop_path_component_front: the component, and the rest of the path if it
\* is not empty.
pop_path_component_front(s) ==
    LET Split(k) ==
            IF k = 0 THEN [comp |-> s, some |-> FALSE, rest |-> <<>>]
            ELSE [comp |-> SubSeq(s, 1, k - 1),
                  some |-> k < Len(s),
                  rest |-> SubSeq(s, k + 1, Len(s))]
    IN  Split(Find(s, SEPARATOR_CHAR))

\* A variant of pop_path_component_back that splits at the first separator.
pop_path_component_back_at_first(s) ==
    LET Split(k) ==
            IF k = 0 THEN [comp |-> s, some |-> FALSE, rest |-> <<>>]
            ELSE [comp |-> SubSeq(s, k + 1, Len(s)),
                  some |-> k > 1,
                  rest |-> SubSeq(s, 1, k - 1)]
    IN  Split(Find(s, SEPARATOR_CHAR))

\* pop_path_component_back
pop_path_component_back(s) ==
    LET Split(k) ==
            IF k = 0 THEN [comp |-> s, some |-> FALSE, rest |-> <<>>]
            ELSE [comp |-> SubSeq(s, k + 1, Len(s)),
                  some |-> k > 1,
                  rest |-> SubSeq(s, 1, k - 1)]
    IN  Split(RFind(s, SEPARATOR_CHAR))

\* next_impl, called until it returns None: the items a FilePathBufIter
\* over the string s yields through `pop`.
Drain(pop(_), s) ==
    LET Yield(st, popped) ==
            [done |-> ~popped.some, rest |-> popped.rest,
             items |-> Append(st.items, popped.comp)]
        Body(st, i) == Yield(st, pop(st.rest))
    IN  Loop(Body, [done |-> FALSE, rest |-> s, items |-> <<>>], 1, Len(s)).items

\* FilePathBuf::components().collect()
FilePathBufComponents(s) == Drain(pop_path_component_front, s)

\* FilePathBuf::components().rev().collect()
FilePathBufComponentsRev(s) == Drain(pop_path_component_back, s)

\* A variant of file_path_and_name that splits at the first separator.
file_path_and_name_at_first(s) ==
    LET Split(k) ==
            IF k = 0 THEN [some |-> FALSE, file_path |-> <<>>, file_name |-> <<>>]
            ELSE [some |-> TRUE,
                  file_path |-> SubSeq(s, 1, k - 1),
                  file_name |-> SubSeq(s, k + 1, Len(s))]
    IN  Split(Find(s, SEPARATOR_CHAR))

\* file_path_and_name: Option<FilePathAndName>.
file_path_and_name(s) ==
    LET Split(k) ==
            IF k = 0 THEN [some |-> FALSE, file_path |-> <<>>, file_name |-> <<>>]
            ELSE [some |-> TRUE,
                  file_path |-> SubSeq(s, 1, k - 1),
                  file_name |-> SubSeq(s, k + 1, Len(s))]
    IN  Split(RFind(s, SEPARATOR_CHAR))

-----------------------------------------------------------------------------
(* FilePathBufs as a state machine: a raw path is chosen; a FilePathBuf is  *)
(* made from it by FilePathBuf::new, by FilePath::to_owned, or by a        *)
(* FilePathBuilder it was pushed to; then one operation runs on the        *)
(* FilePathBuf.                                                            *)

\* Pieces of raw paths: two letters, a period (for names such as
\* "a.b" and for skipped "." segments) and the two separators.
BufTokens == { Str(<<"a">>), Str(<<"b">>), Str(<<".">>), Str(<<"/">>), Str(<<"\\">>) }

BufInputs == Concats(BufTokens, MaxBufTokens)

InitBuf ==
    /\ path \in BufInputs
    /\ builder = <<>>
    /\ buf = NoBuf
    /\ out = NoOut
    /\ op = "buf" /\ result = NoResult
    /\ component = <<>> /\ vresult = Pending
    /\ lhs = <<>> /\ rhs = <<>> /\ cmp = NoCmp

\* builder.push(path)
PushPath ==
    /\ buf.made = "none"
    /\ Len(builder) < MaxBuilderLen
    /\ builder' = BuilderPush(builder, path).string
    /\ UNCHANGED <<component, vresult, path, op, result, lhs, rhs, cmp, buf, out>>

\* FilePathBuf::new(path)
MakeNew ==
    /\ buf.made = "none" /\ builder = <<>>
    /\ buf' = [made |-> "FilePathBuf::new"] @@ FilePathBufNew(path)
    /\ UNCHANGED <<component, vresult, path, op, result, lhs, rhs, cmp, out, builder>>

\* FilePath::new(path).map(|p| p.to_owned())
MakeToOwned ==
    /\ buf.made = "none" /\ builder = <<>>
    /\ buf' = LET Owned(fp) ==
                      [made |-> "FilePath::to_owned", res |-> fp.res,
                       str |-> IF fp.res = Ok THEN FilePathToOwned(fp.str) ELSE <<>>]
              IN  Owned(FilePathNew(path))
    /\ UNCHANGED <<component, vresult, path, op, result, lhs, rhs, cmp, out, builder>>

\* builder.build().unwrap()
MakeBuild ==
    /\ buf.made = "none"
    /\ FilePathBuilderBuild(builder).some
    /\ buf' = [made |-> "FilePathBuilder::build", res |-> Ok,
               str |-> FilePathBuilderBuild(builder).str]
    /\ UNCHANGED <<component, vresult, path, op, result, lhs, rhs, cmp, out, builder>>

\* FilePathBuf::new(buf.as_str()), as in is_valid_filepath
Renew ==
    /\ buf.res = Ok /\ out.op = "none"
    /\ out' = [op |-> "FilePathBuf::new", made |-> FilePathBufNew(buf.str)]
    /\ UNCHANGED <<component, vresult, path, op, result, lhs, rhs, cmp, buf, builder>>

\* buf.components().collect()
IterComponents ==
    /\ buf.res = Ok /\ out.op = "none"
    /\ out' = [op |-> "components", items |-> FilePathBufComponents(buf.str)]
    /\ UNCHANGED <<component, vresult, path, op, result, lhs, rhs, cmp, buf, builder>>

\* buf.components().rev().collect()
IterComponentsRev ==
    /\ buf.res = Ok /\ out.op = "none"
    /\ out' = [op |-> "components().rev()", items |-> FilePathBufComponentsRev(buf.str)]
    /\ UNCHANGED <<component, vresult, path, op, result, lhs, rhs, cmp, buf, builder>>

\* file_path_and_name(&buf)
FilePathAndName ==
    /\ buf.res = Ok /\ out.op = "none"
    /\ out' = [op |-> "file_path_and_name", split |-> file_path_and_name(buf.str)]
    /\ UNCHANGED <<component, vresult, path, op, result, lhs, rhs, cmp, buf, builder>>

NextBuf ==
    \/ PushPath \/ MakeNew \/ MakeToOwned \/ MakeBuild
    \/ Renew \/ IterComponents \/ IterComponentsRev \/ FilePathAndName

SpecBuf == InitBuf /\ [][NextBuf]_vars

-----------------------------------------------------------------------------
(* file_stem_and_extension, and a state machine that applies it once to a  *)
(* file name.                                                              *)

\* A variant of file_stem_and_extension that splits at the first period.
file_stem_and_extension_at_first(file_name) ==
    LET Split(k) ==
            IF k = 0 \/ k = Len(file_name) THEN [some |-> FALSE]
            ELSE [some |-> TRUE,
                  file_stem |-> IF k = 1 THEN [some |-> FALSE]
                                ELSE [some |-> TRUE, str |-> SubSeq(file_name, 1, k - 1)],
                  extension |-> SubSeq(file_name, k + 1, Len(file_name))]
    IN  Split(Find(file_name, Ord(".")))

\* file_stem_and_extension: Option<FileStemAndExtension>; rsplitn(2, '.')
\* yields the text after the last period, then the text before it if there
\* is a period.
file_stem_and_extension(file_name) ==
    LET Split(k) ==
            IF k = 0 \/ k = Len(file_name) THEN [some |-> FALSE]
            ELSE [some |-> TRUE,
                  file_stem |-> IF k = 1 THEN [some |-> FALSE]
                                ELSE [some |-> TRUE, str |-> SubSeq(file_name, 1, k - 1)],
                  extension |-> SubSeq(file_name, k + 1, Len(file_name))]
    IN  Split(RFind(file_name, Ord(".")))

\* Pieces of file names: letters, an extension, a period.
NameTokens == { Str(<<"a">>), Str(<<"b">>), Str(<<"t", "x", "t">>), Str(<<".">>) }

\* Non-empty file names, those that end with a period included.
NameInputs == Concats(NameTokens, MaxNameTokens)

InitName ==
    /\ component \in NameInputs
    /\ out = NoOut
    /\ op = "name" /\ vresult = Pending
    /\ path = <<>> /\ result = NoResult
    /\ buf = NoBuf /\ builder = <<>>
    /\ lhs = <<>> /\ rhs = <<>> /\ cmp = NoCmp

\* file_stem_and_extension(component)
FileStemAndExtension ==
    /\ out.op = "none"
    /\ out' = [op |-> "file_stem_and_extension",
               split |-> file_stem_and_extension(component)]
    /\ UNCHANGED <<component, vresult, path, op, result, lhs, rhs, cmp, buf, builder>>

NextName == FileStemAndExtension

SpecName == InitName /\ [][NextName]_vars

-----------------------------------------------------------------------------
(* A FilePathBuilder as a state machine: it starts empty; raw paths are    *)
(* pushed to it, its last component is popped, it is cleared.              *)

\* A variant of FilePathBuilder::pop that stops before the separator.
BuilderPopKeepSeparator(string) ==
    LET Truncate(k) == IF k = 0 THEN <<>> ELSE SubSeq(string, 1, k)
    IN  [res |-> string # <<>>, string |-> Truncate(RFind(string, SEPARATOR_CHAR))]

\* FilePathBuilder::pop: [res, string], whether the builder was not empty
\* and the string it is left with.
BuilderPop(string) ==
    LET Truncate(k) == IF k = 0 THEN <<>> ELSE SubSeq(string, 1, k - 1)
    IN  [res |-> string # <<>>, string |-> Truncate(RFind(string, SEPARATOR_CHAR))]

\* The paths pushed in tests::builder, with one-letter names, and a few
\* more: paths of one and two components, with a skipped "." segment, with
\* repeated and trailing separators of both kinds, and paths that are
\* rejected.
PushInputs ==
    { Str(<<"a">>), Str(<<"B">>),
      Str(<<"a", "/", "B">>), Str(<<"a", "\\", "B">>),
      Str(<<"a", "/", ".", "/">>),
      Str(<<"B", "\\", "\\">>),
      Str(<<"a", "/", ".", "/", "B", "/", "/">>),
      Str(<<"a", ".", "B">>),
      Str(<<"C", ":", "/", "a">>),
      Str(<<"/", "a">>),
      Str(<<"a", "/", ".", ".", "/">>),
      Str(<<".", "/", "a">>),
      <<>> }

\* FilePathBuilder::new()
InitBuilder ==
    /\ builder = <<>>
    /\ op = "FilePathBuilder::new"
    /\ path = <<>> /\ result = NoResult
    /\ component = <<>> /\ vresult = Pending
    /\ buf = NoBuf /\ out = NoOut
    /\ lhs = <<>> /\ rhs = <<>> /\ cmp = NoCmp

\* The paths whose FilePathBuf is turned into a builder: the path built in
\* tests::builder (with one-letter names), the same from a raw path, and a
\* path of 1024 components that is two bytes short of MAX_PATH_LEN.
BuilderSeeds ==
    { Str(<<"a", "/", "B">>), Str(<<"a", "\\", "B", "/", "/">>),
      Rep(Pad(Ord("a"), 63) \o Str(<<"/">>), 1023) \o Pad(Ord("a"), MAX_PATH_LEN - 2 - 1023 * 64) }

\* The builders that are extended further: the short ones and, for one
\* push after into_builder, those within NearLimit bytes of MAX_PATH_LEN.
NearTheLimit(string) == Len(string) > MAX_PATH_LEN - NearLimit

\* FilePathBuf::new(s), then FilePathBuf::into_builder
IntoBuilder ==
    \E s \in BuilderSeeds :
        /\ op = "FilePathBuilder::new"
        /\ LET Made(fpb) ==
                   /\ fpb.res = Ok
                   /\ builder' = fpb.str
           IN  Made(FilePathBufNew(s))
        /\ path' = s
        /\ result' = NoResult
        /\ op' = "into_builder"
        /\ UNCHANGED <<component, vresult, lhs, rhs, cmp, buf, out>>

\* builder.push(p)
Push ==
    \E p \in PushInputs :
        /\ Len(builder) < MaxBuilderLen \/ (NearTheLimit(builder) /\ op = "into_builder")
        /\ LET Pushed(r) ==
                   /\ builder' = r.string
                   /\ result' = [res |-> r.res, str |-> <<>>]
           IN  Pushed(BuilderPush(builder, p))
        /\ path' = p
        /\ op' = "push"
        /\ UNCHANGED <<component, vresult, lhs, rhs, cmp, buf, out>>

\* builder.pop()
Pop ==
    /\ Len(builder) <= 2 * MaxBuilderLen \/ NearTheLimit(builder)
    /\ builder' = BuilderPop(builder).string
    /\ result' = NoResult
    /\ path' = <<>>
    /\ op' = IF BuilderPop(builder).res THEN "pop" ELSE "pop (empty)"
    /\ UNCHANGED <<component, vresult, lhs, rhs, cmp, buf, out>>

\* builder.clear()
Clear ==
    /\ builder' = <<>>
    /\ result' = NoResult
    /\ path' = <<>>
    /\ op' = "clear"
    /\ UNCHANGED <<component, vresult, lhs, rhs, cmp, buf, out>>

NextBuilder == Push \/ Pop \/ Clear

SpecBuilder == InitBuilder /\ [][NextBuilder]_vars

\* The builder, made by FilePathBuilder::new or by FilePathBuf::into_builder.
NextIntoBuilder == IntoBuilder \/ Push \/ Pop \/ Clear

SpecIntoBuilder == InitBuilder /\ [][NextIntoBuilder]_vars

-----------------------------------------------------------------------------
(* FilePathBufIter as a state machine: a FilePathBuf is made, components() *)
(* is called on it, then next() and next_back() in any order.             *)

\* The names of the components of the iterated paths.
IterNames == { Str(<<"a">>), Str(<<"b", "b">>) }

\* The strings of segs with sep between two of them.
RECURSIVE Joined(_, _)
Joined(segs, sep) ==
    IF Len(segs) = 1 THEN segs[1]
    ELSE segs[1] \o (sep \o Joined(Tail(segs), sep))

\* Raw paths of 1..MaxIterComponents components, separated by '/', by '\'
\* or by "/./".
IterInputs ==
    {Joined(segs, sep) :
        segs \in UNION {[1..n -> IterNames] : n \in 1..MaxIterComponents},
        sep \in {Str(<<"/">>), Str(<<"\\">>), Str(<<"/", ".", "/">>)}}

InitIter ==
    /\ path \in IterInputs
    /\ builder = <<>>
    /\ buf = NoBuf
    /\ out = NoOut
    /\ op = "iter" /\ result = NoResult
    /\ component = <<>> /\ vresult = Pending
    /\ lhs = <<>> /\ rhs = <<>> /\ cmp = NoCmp

\* Option<FilePathComponent>
NoComponent == [some |-> FALSE, comp |-> <<>>]

\* FilePathBuf::components(): FilePathBufIter(Some(path))
FilePathBufIterNew ==
    /\ buf.res = Ok /\ out.op = "none"
    /\ out' = [op |-> "components", src |-> [some |-> TRUE, str |-> buf.str],
               front |-> <<>>, back |-> <<>>, calls |-> 0, last |-> NoComponent]
    /\ UNCHANGED <<component, vresult, path, op, result, lhs, rhs, cmp, buf, builder>>

\* next_impl(src_path, pop), given what pop returns for the path of
\* src_path: [ret, src], the returned item and src_path after the call.
next_impl(src, popped) ==
    IF ~src.some THEN [ret |-> NoComponent, src |-> src]
    ELSE [ret |-> [some |-> TRUE, comp |-> popped.comp],
          src |-> [some |-> popped.some, str |-> popped.rest]]

\* FilePathBufIter::next()
IterNext ==
    /\ out.op = "components"
    /\ out.calls < Len(out.front) + Len(out.back) + MaxExtraCalls
    /\ LET Called(r) ==
               out' = [out EXCEPT !.src = r.src, !.last = r.ret, !.calls = @ + 1,
                                  !.front = IF r.ret.some THEN Append(@, r.ret.comp) ELSE @]
       IN  Called(next_impl(out.src, pop_path_component_front(out.src.str)))
    /\ UNCHANGED <<component, vresult, path, op, result, lhs, rhs, cmp, buf, builder>>

\* FilePathBufIter::next_back()
IterNextBack ==
    /\ out.op = "components"
    /\ out.calls < Len(out.front) + Len(out.back) + MaxExtraCalls
    /\ LET Called(r) ==
               out' = [out EXCEPT !.src = r.src, !.last = r.ret, !.calls = @ + 1,
                                  !.back = IF r.ret.some THEN Append(@, r.ret.comp) ELSE @]
       IN  Called(next_impl(out.src, pop_path_component_back(out.src.str)))
    /\ UNCHANGED <<component, vresult, path, op, result, lhs, rhs, cmp, buf, builder>>

NextIter == MakeNew \/ FilePathBufIterNew \/ IterNext \/ IterNextBack

SpecIter == InitIter /\ [][NextIter]_vars

-----------------------------------------------------------------------------
(* split_at_reserved_name as a state machine: a component is chosen, then  *)
(* split once.                                                             *)

\* Pieces of components that are about reserved names: the beginnings of
\* the names, whole names, and characters that end or break a match (a
\* letter, a digit, '$', a space, a period, a two-byte letter (U+00E9)).
SplitTokens ==
    { Str(<<"a">>), Str(<<"a", "u">>), Str(<<"n">>), Str(<<"n", "u">>),
      Str(<<"p">>), Str(<<"p", "r">>), Str(<<"c">>), Str(<<"c", "o">>),
      Str(<<"l">>), Str(<<"l", "p">>), Str(<<"l", "p", "t">>), Str(<<"c", "o", "m">>),
      Str(<<"C", "O", "N", "i">>), Str(<<"c", "o", "n", "O", "u">>),
      Str(<<"A", "U", "X">>), Str(<<"c", "o", "n">>), Str(<<"P", "r", "n">>),
      Str(<<"n", "u", "l">>), Str(<<"c", "o", "m", "1">>), Str(<<"L", "P", "T", "9">>),
      Str(<<"c", "o", "n", "i", "n", "$">>), Str(<<"C", "O", "N", "O", "U", "T", "$">>),
      Str(<<"x">>), Str(<<"7">>), Str(<<"$">>), Str(<<" ">>), Str(<<".">>), <<233>> }

SplitInputs == NameComponents \cup Concats(SplitTokens, MaxSplitTokens)

InitSplit ==
    /\ component \in SplitInputs
    /\ out = NoOut
    /\ op = "split" /\ vresult = Pending
    /\ path = <<>> /\ result = NoResult
    /\ buf = NoBuf /\ builder = <<>>
    /\ lhs = <<>> /\ rhs = <<>> /\ cmp = NoCmp

\* split_at_reserved_name(component)
SplitAtReservedName ==
    /\ out.op = "none"
    /\ out' = [op |-> "split_at_reserved_name", ret |-> split_at_reserved_name(component)]
    /\ UNCHANGED <<component, vresult, path, op, result, lhs, rhs, cmp, buf, builder>>

NextSplit == SplitAtReservedName

SpecSplit == InitSplit /\ [][NextSplit]_vars

-----------------------------------------------------------------------------
(* Properties of the component validator (checked under Spec).             *)

\* validate_normal_path_component has returned.
Validated == vresult.kind \notin {"Pending", "true", "false"}

\* Length of the UTF-8 encoding of s, counted per code point range.
Utf8Bytes(s) ==
    Len(s) + Cardinality({i \in 1..Len(s) : s[i] >= 128})
           + Cardinality({i \in 1..Len(s) : s[i] >= 2048})
           + Cardinality({i \in 1..Len(s) : s[i] >= 65536})

\* \ / : * ? " < > | and the ASCII controls 0x00-0x1F, 0x7F.
Forbidden(c) == c \in 0..31 \/ c = 127 \/ c \in {92, 47, 58, 42, 63, 34, 60, 62, 124}

\* The positions of the forbidden characters of s.
ForbiddenAt(s) == {i \in 1..Len(s) : Forbidden(s[i])}

\* The outcome the decision list of C1 prescribes for s.
DecisionList(s) ==
    IF Utf8Bytes(s) > 255 THEN Err("ComponentTooLong", <<>>, Utf8Bytes(s))
    ELSE IF s[Len(s)] = 46 THEN Err("ComponentEndsWithAPeriod", <<>>, 0)
    ELSE IF s[Len(s)] = 32 THEN Err("ComponentEndsWithASpace", <<>>, 0)
    ELSE IF ForbiddenAt(s) # {}
         THEN Err("InvalidCharacter", <<>>,
                  s[CHOOSE i \in ForbiddenAt(s) : \A j \in ForbiddenAt(s) : i <= j])
    ELSE IF IsReservedName(s) THEN Err("ReservedName", <<>>, 0)
    ELSE Ok

\* C1: for every non-empty component the validator returns the first
\* applicable outcome of the list (1) more than 255 bytes: ComponentTooLong
\* with the byte length, (2) last character '.': ComponentEndsWithAPeriod,
\* (3) last character ' ': ComponentEndsWithASpace, (4) a forbidden or ASCII
\* control character: InvalidCharacter with the leftmost one, (5) reserved
\* name: ReservedName, otherwise Ok; an earlier rule wins over a later one.
C1_DecisionList == Validated => vresult = DecisionList(component)

\* A reserved name with a trailing period ("nul.") reported for its period.
C1_Witness ==
    /\ vresult.kind = "ComponentEndsWithAPeriod"
    /\ IsReservedName(component)

\* s without its leading spaces.
StripSpaces(s) ==
    LET other == {i \in 1..Len(s) : s[i] # 32}
    IN  IF other = {} THEN <<>>
        ELSE SubSeq(s, CHOOSE i \in other : \A j \in other : i <= j, Len(s))

\* s with its ASCII upper-case letters in lower case.
Lower(s) == [i \in 1..Len(s) |-> IF s[i] \in 65..90 THEN s[i] + 32 ELSE s[i]]

\* AUX, CON, PRN, NUL, COM1..COM9, LPT1..LPT9, CONIN$, CONOUT$.
DeviceNames ==
    { <<97, 117, 120>>, <<99, 111, 110>>, <<112, 114, 110>>, <<110, 117, 108>>,
      <<99, 111, 110, 105, 110, 36>>, <<99, 111, 110, 111, 117, 116, 36>> }
      \cup {<<99, 111, 109, d>> : d \in 49..57}
      \cup {<<108, 112, 116, d>> : d \in 49..57}

\* s, its leading spaces removed, begins with a device name, and what follows
\* the name, its leading spaces removed, is empty or begins with '.'.
BeginsWithDeviceName(s) ==
    LET t == StripSpaces(s)
    IN  \E n \in DeviceNames :
           /\ Len(t) >= Len(n)
           /\ Lower(SubSeq(t, 1, Len(n))) = n
           /\ LET r == StripSpaces(SubSeq(t, Len(n) + 1, Len(t)))
              IN  r = <<>> \/ r[1] = 46

\* C2: an all-ASCII component that passes the length, trailing-period,
\* trailing-space and forbidden-character checks is rejected with
\* ReservedName iff, leading spaces removed, it begins (ASCII
\* case-insensitively) with one of the device names and the text after the
\* name, leading spaces removed, is empty or begins with '.'; else it is Ok.
C2_ReservedIff ==
    (/\ Validated
     /\ vresult.kind \in {"Ok", "ReservedName"}
     /\ \A i \in 1..Len(component) : component[i] < 128)
    => (vresult.kind = "ReservedName" <=> BeginsWithDeviceName(component))

\* A name after a space and before spaces and an extension (" lpt4 .a") is rejected.
C2_Witness ==
    /\ vresult.kind = "ReservedName"
    /\ component[1] = 32
    /\ \E i \in 2..Len(component) : component[i] = 32

\* s is COM0 or LPT0 in any letter case, alone or followed by '.' and letters.
IsZeroName(s) ==
    /\ Len(s) >= 4
    /\ Lower(SubSeq(s, 1, 4)) \in {<<99, 111, 109, 48>>, <<108, 112, 116, 48>>}
    /\ \/ Len(s) = 4
       \/ /\ Len(s) >= 6
          /\ s[5] = 46
          /\ \A i \in 6..Len(s) : s[i] \in 97..122

\* C3 as stated: COM0 and LPT0, alone or with an extension, are rejected
\* with ReservedName like COM1..COM9 and LPT1..LPT9.
C3_ZeroIsReserved ==
    (Validated /\ IsZeroName(component)) => vresult.kind = "ReservedName"

\* C3 amended: the digit 0 completes no reserved name: COM0 and LPT0, alone
\* or with an extension, are accepted.
C3_ZeroIsAccepted ==
    (Validated /\ IsZeroName(component)) => vresult = Ok

\* "COM0.a" or "LPT0.a" was validated and accepted.
C3_Witness ==
    /\ vresult = Ok
    /\ IsZeroName(component)
    /\ Len(component) > 4

\* C9: a component of exactly 255 bytes that is otherwise valid is accepted,
\* one of 256 bytes or more is rejected with ComponentTooLong carrying its
\* byte length; the length is that of the UTF-8 encoding, not the number of
\* characters.
C9_ComponentLength ==
    Validated =>
      /\ Utf8Bytes(component) >= 256
           => vresult = Err("ComponentTooLong", <<>>, Utf8Bytes(component))
      /\ (/\ Utf8Bytes(component) = 255
          /\ component[Len(component)] \notin {46, 32}
          /\ ForbiddenAt(component) = {}
          /\ ~IsReservedName(component))
           => vresult = Ok

\* 128 two-byte characters (256 bytes) were rejected as too long.
C9_Witness ==
    /\ vresult = Err("ComponentTooLong", <<>>, 256)
    /\ Len(component) = 128

-----------------------------------------------------------------------------
(* Properties of the constructors (SpecPath).                              *)

\* One of the constructors has run on `path`.
Constructed == op \in {"FilePath::new", "FilePathBuf::new"}

\* Whether the characters i..j of p are a whole segment: bounded by
\* separators or by the ends of p, with no separator inside.
IsSegment(p, i, j) ==
    /\ 1 <= i /\ i <= j /\ j <= Len(p)
    /\ (i = 1 \/ IsSep(p[i - 1]))
    /\ (j = Len(p) \/ IsSep(p[j + 1]))
    /\ \A k \in i..j : ~IsSep(p[k])

\* Whether p has a "." segment that starts at index i.
DotSegmentAt(p, i) == IsSegment(p, i, i) /\ Chr(p[i]) = "."

\* Whether p has a ".." segment that starts at index i.
DotDotSegmentAt(p, i) ==
    IsSegment(p, i, i + 1) /\ Chr(p[i]) = "." /\ Chr(p[i + 1]) = "."

\* Whether p is made of the letter 'a' and separators only and starts with
\* the letter: each segment is then a valid component, as long as it has
\* at most MAX_COMPONENT_LEN letters.
PlainPath(p) ==
    /\ Len(p) > 0 /\ Chr(p[1]) = "a"
    /\ \A i \in 1..Len(p) : Chr(p[i]) = "a" \/ IsSep(p[i])
    /\ \A i \in 1..(Len(p) - MAX_COMPONENT_LEN) :
          \E j \in i..(i + MAX_COMPONENT_LEN) : IsSep(p[j])

\* Like PlainPath, for the possibly empty text before a segment.
PlainPrefix(p) == p = <<>> \/ PlainPath(p)

\* The number of segments of a plain path.
NumSegments(p) ==
    Cardinality({i \in 1..Len(p) : ~IsSep(p[i]) /\ (i = 1 \/ IsSep(p[i - 1]))})

\* The segments of a short path, in order.
Segments(p) ==
    LET starts == {i \in 1..Len(p) : ~IsSep(p[i]) /\ (i = 1 \/ IsSep(p[i - 1]))}
        EndOf(i) == CHOOSE j \in i..Len(p) : IsSegment(p, i, j)
        Nth(n) == CHOOSE i \in starts : Cardinality({k \in starts : k < i}) = n - 1
    IN  [n \in 1..Cardinality(starts) |-> SubSeq(p, Nth(n), EndOf(Nth(n)))]

\* L of a plain path: its letters, and one separator between two segments.
TotalLength(p) ==
    Cardinality({i \in 1..Len(p) : ~IsSep(p[i])}) + NumSegments(p) - 1

\* C4 as stated: whenever the input has a "." segment with only valid
\* components before it, both constructors fail with CurrentDirectory
\* carrying those components.
C4_AnyCurDirFails ==
    Constructed =>
        \A i \in 1..Len(path) :
            DotSegmentAt(path, i) /\ PlainPrefix(SubSeq(path, 1, i - 1))
                => result.res = Err("CurrentDirectory",
                                    Segments(SubSeq(path, 1, i - 1)), 0)

\* C4, amended: both constructors fail with CurrentDirectory exactly when
\* the input starts with a "." segment, and the error then carries the empty
\* path; a "." segment after the first component is skipped: an input made
\* of valid components and such segments is accepted, and the FilePathBuf
\* built from it holds the valid components only.
C4_OnlyLeadingCurDirFails ==
    Constructed =>
        /\ result.res.kind = "CurrentDirectory" <=> DotSegmentAt(path, 1)
        /\ result.res.kind = "CurrentDirectory" => result.res.path = <<>>
        /\ \A i \in 2..Len(path) :
              /\ DotSegmentAt(path, i)
              /\ PlainPath(SubSeq(path, 1, i - 1))
              /\ PlainPrefix(SubSeq(path, i + 1, Len(path)))
              => /\ result.res = Ok
                 /\ op = "FilePathBuf::new" =>
                       Segments(result.str) =
                           Segments(SubSeq(path, 1, i - 1))
                              \o Segments(SubSeq(path, i + 1, Len(path)))

\* C4: FilePathBuf::new has accepted an input with a "." segment between
\* two components.
C4_Witness ==
    /\ op = "FilePathBuf::new"
    /\ result.res = Ok
    /\ \E i \in 2..(Len(path) - 1) : DotSegmentAt(path, i)
    /\ Len(Segments(result.str)) = 2

\* C7: every path the constructors accept has at most MAX_NUM_COMPONENTS
\* components.
C7_AtMostMaxNumComponents ==
    Constructed /\ result.res = Ok => NumComponents(result.str) <= MAX_NUM_COMPONENTS

\* C8: for a path of valid components, with L the bytes of the components
\* plus one per separator between two components, both constructors accept
\* when L <= MAX_PATH_LEN, and the FilePathBuf then holds L bytes; they fail
\* with PathTooLong carrying L when L > MAX_PATH_LEN.
C8_TotalLengthBoundary ==
    Constructed /\ PlainPath(path) =>
        IF TotalLength(path) <= MAX_PATH_LEN
        THEN /\ result.res = Ok
             /\ op = "FilePathBuf::new" => StrLen(result.str) = TotalLength(path)
        ELSE result = [res |-> Err("PathTooLong", <<>>, TotalLength(path)), str |-> <<>>]

\* C8: both sides of the boundary: FilePathBuf::new has run on a path of
\* MAX_NUM_COMPONENTS + 1 components and L = MAX_PATH_LEN + 1, and failed
\* with PathTooLong(MAX_PATH_LEN + 1).
C8_Witness ==
    /\ op = "FilePathBuf::new"
    /\ PlainPath(path)
    /\ NumSegments(path) = MAX_NUM_COMPONENTS + 1
    /\ result.res = Err("PathTooLong", <<>>, MAX_PATH_LEN + 1)

\* Whether p starts with a drive prefix ("C:") or a UNC prefix (two
\* separators, a server name, a separator, a share name).
StartsWithDriveOrUNC(p) ==
    \/ Len(p) >= 2 /\ p[1] \in (65..90) \cup (97..122) /\ Chr(p[2]) = ":"
    \/ /\ Len(p) >= 5 /\ IsSep(p[1]) /\ IsSep(p[2])
       /\ \E j \in 4..(Len(p) - 1) :
             /\ IsSep(p[j]) /\ ~IsSep(p[j + 1])
             /\ \A k \in 3..(j - 1) : ~IsSep(p[k])

\* Whether p starts with one separator, the root.
StartsWithRoot(p) == Len(p) >= 1 /\ IsSep(p[1]) /\ (Len(p) = 1 \/ ~IsSep(p[2]))

SegError(seg) ==
    LET Kind(v) == IF v = Ok THEN "Ok" ELSE v.kind
    IN  IF seg = Str(<<".", ".">>) THEN "ParentDirectory"
        ELSE IF seg = Str(<<".">>) THEN "Ok"
        ELSE Kind(validate_normal_path_component(seg, <<>>))

\* Whether p is a short relative input whose segments are all components:
\* it does not start with a separator, a prefix or a "." segment.
RelativeInput(p) ==
    /\ p # <<>> /\ Len(p) <= MAX_COMPONENT_LEN
    /\ ~IsSep(p[1]) /\ ~HasPrefix(p) /\ ~DotSegmentAt(p, 1)

\* Whether the segment i..j of p is the first one that draws an error.
FirstOffender(p, i, j) ==
    /\ IsSegment(p, i, j)
    /\ SegError(SubSeq(p, i, j)) # "Ok"
    /\ \A k \in 1..NumSegments(SubSeq(p, 1, i - 1)) :
          SegError(Segments(SubSeq(p, 1, i - 1))[k]) = "Ok"

\* C11: when segments of an input are invalid, both constructors return the
\* error of the first of them, and what they return is what they return
\* for the input cut after that segment: nothing to its right has a say.
\* An input with no invalid segment is accepted.
C11_FirstErrorWins ==
    Constructed /\ RelativeInput(path) =>
        /\ \A i \in 1..Len(path) : \A j \in i..Len(path) :
              FirstOffender(path, i, j) =>
                  /\ result.res.kind = SegError(SubSeq(path, i, j))
                  /\ result.res = FilePathNew(SubSeq(path, 1, j)).res
        /\ (\A k \in 1..NumSegments(path) : SegError(Segments(path)[k]) = "Ok")
              => result.res = Ok

\* C11: FilePathBuf::new has reported the reserved name that comes first in
\* an input where a ".." segment follows it.
C11_Witness ==
    /\ op = "FilePathBuf::new"
    /\ RelativeInput(path)
    /\ result.res.kind = "ReservedName"
    /\ \E i \in 2..Len(path) : \E j \in i..Len(path) :
          /\ FirstOffender(path, 1, i - 2)
          /\ IsSegment(path, i, j)
          /\ SegError(SubSeq(path, i, j)) = "ParentDirectory"

\* Whether p is a path of valid components whose total length is over
\* MAX_PATH_LEN, then a separator, then the reserved name "nul".
OverLimitThenReserved(p) ==
    LET Test(prefix) == PlainPath(prefix) /\ TotalLength(prefix) > MAX_PATH_LEN
    IN  /\ Len(p) > 4
        /\ SubSeq(p, Len(p) - 3, Len(p)) = Str(<<"/", "n", "u", "l">>)
        /\ Test(SubSeq(p, 1, Len(p) - 4))

\* C12 as stated: PathTooLong is returned as soon as the running length is
\* over MAX_PATH_LEN, even if a component to the right is invalid.
C12_LengthCheckedIncrementally ==
    Constructed /\ OverLimitThenReserved(path) => result.res.kind = "PathTooLong"

\* C12, amended: the total length is compared with MAX_PATH_LEN once, after
\* the last component: PathTooLong is returned only when every component is
\* valid, and an invalid component that comes after the point where the
\* running length went over the limit gets its own error reported.
C12_LengthCheckedLast ==
    Constructed =>
        /\ result.res.kind = "PathTooLong" =>
              PlainPath(path) /\ result.res.data = TotalLength(path)
        /\ OverLimitThenReserved(path) => result.res.kind = "ReservedName"

\* C12: FilePath::new has reported the reserved name at the end of a path
\* whose components before it are already longer than MAX_PATH_LEN.
C12_Witness ==
    /\ op = "FilePath::new"
    /\ OverLimitThenReserved(path)
    /\ result.res.kind = "ReservedName"

-----------------------------------------------------------------------------
(* Properties of equality and hashing (SpecPair).                          *)

\* The components of a short path, read off the string: its segments other
\* than ".".
ComponentsOf(p) == SelectSeq(Segments(p), LAMBDA seg : seg # Str(<<".">>))

\* C5: two valid paths are equal exactly when their component sequences
\* are the same, whatever separators and "." segments their strings hold.
C5_EqIffSameComponents ==
    cmp.eq # "unset" =>
        (cmp.eq = "true" <=> ComponentsOf(lhs.str) = ComponentsOf(rhs.str))

\* C5: two FilePaths with different strings have compared equal.
C5_Witness ==
    /\ cmp.eq = "true"
    /\ lhs.kind = "FilePath" /\ rhs.kind = "FilePath"
    /\ lhs.str # rhs.str
    /\ Len(ComponentsOf(lhs.str)) = 2

\* C6: two valid paths that are equal write the same bytes to the hasher.
C6_EqImpliesSameHash ==
    cmp.hashed = 2 /\ cmp.eq = "true" => cmp.lhs_hash = cmp.rhs_hash

\* C6: a FilePath and a FilePathBuf with different strings are equal and
\* both have been hashed.
C6_Witness ==
    /\ cmp.hashed = 2 /\ cmp.eq = "true"
    /\ lhs.kind = "FilePath" /\ rhs.kind = "FilePathBuf"
    /\ lhs.str # rhs.str
    /\ Len(cmp.lhs_hash) = 2

-----------------------------------------------------------------------------
(* Error payloads of the constructors (SpecPath).                          *)

\* The errors that carry the components before the failing one.
ExclusiveKinds == {"CurrentDirectory", "ParentDirectory", "EmptyComponent", "InvalidUTF8"}

\* The errors that carry the components up to the failing one, included.
InclusiveKinds ==
    {"ComponentTooLong", "InvalidCharacter", "ComponentEndsWithAPeriod",
     "ComponentEndsWithASpace", "ReservedName"}

\* C13: an error found at component i carries the components 0..i-1 when
\* it is CurrentDirectory, ParentDirectory, EmptyComponent or InvalidUTF8,
\* and the components 0..i when it is ComponentTooLong, InvalidCharacter,
\* ComponentEndsWithAPeriod, ComponentEndsWithASpace or ReservedName;
\* PrefixedPath, RootDirectory and EmptyPath carry no path.
C13_ErrorPayloads ==
    Constructed /\ Len(path) <= MAX_COMPONENT_LEN =>
        /\ result.res.kind \in {"PrefixedPath", "RootDirectory", "EmptyPath"}
              => result.res.path = <<>>
        /\ DotSegmentAt(path, 1) => result.res = Err("CurrentDirectory", <<>>, 0)
        /\ RelativeInput(path) =>
              \A i \in 1..Len(path) : \A j \in i..Len(path) :
                  FirstOffender(path, i, j) =>
                      /\ result.res.kind \in ExclusiveKinds
                            => result.res.path = ComponentsOf(SubSeq(path, 1, i - 1))
                      /\ result.res.kind \in InclusiveKinds
                            => result.res.path = ComponentsOf(SubSeq(path, 1, j))
                      /\ result.res.kind \in ExclusiveKinds \cup InclusiveKinds

\* C17: both constructors fail with EmptyPath exactly on the empty input,
\* the only one that has no component and draws no other error, and every
\* path they return is a non-empty string.
C17_EmptyPathIffNoComponents ==
    Constructed =>
        /\ result.res.kind = "EmptyPath" <=> path = <<>>
        /\ result.res.kind = "EmptyPath" <=>
              NumComponents(path) = 0 /\ FrontComponent(path) = "None"
        /\ result.res = Ok => Len(result.str) > 0

\* C17: FilePathBuf::new has failed with EmptyPath on the empty input.
C17_Witness ==
    /\ op = "FilePathBuf::new"
    /\ path = <<>>
    /\ result = [res |-> Err("EmptyPath", <<>>, 0), str |-> <<>>]

-----------------------------------------------------------------------------
(* Properties of FilePathBufs (SpecBuf).                                   *)

\* The strings of segs joined by one '/' between two of them.
RECURSIVE JoinSegments(_)
JoinSegments(segs) ==
    IF Len(segs) = 0 THEN <<>>
    ELSE IF Len(segs) = 1 THEN segs[1]
    ELSE segs[1] \o (Str(<<"/">>) \o JoinSegments(Tail(segs)))

\* segs, last to first.
Reversed(segs) == [k \in 1..Len(segs) |-> segs[Len(segs) + 1 - k]]

\* Whether p is a non-empty sequence of components the validator accepts,
\* joined by '/'.
CanonicalJoin(p) ==
    /\ p # <<>>
    /\ p = JoinSegments(Segments(p))
    /\ \A k \in 1..NumSegments(p) :
          validate_normal_path_component(Segments(p)[k], <<>>) = Ok

\* C14: FilePathBuf::new of the string of a FilePathBuf, whichever way the
\* FilePathBuf was made, succeeds and returns the same string.
C14_Idempotent ==
    out.op = "FilePathBuf::new" => out.made = [res |-> Ok, str |-> buf.str]

\* C14: a FilePathBuf that FilePath::to_owned made of a raw path with other
\* separators has been given to FilePathBuf::new again.
C14_Witness ==
    /\ buf.made = "FilePath::to_owned"
    /\ buf.str # path
    /\ out.op = "FilePathBuf::new"
    /\ out.made.str = buf.str

\* C15: FilePathBuf::new accepts valid components joined by '/' and keeps
\* the string; components() of a FilePathBuf yields the components its
\* string is the join of, in order, and in reverse order under rev().
C15_RoundTrip ==
    /\ buf.made = "FilePathBuf::new" /\ CanonicalJoin(path)
          => buf.res = Ok /\ buf.str = path
    /\ out.op = "components" => out.items = Segments(buf.str)
    /\ out.op = "components().rev()" => out.items = Reversed(Segments(buf.str))

\* C15: the two components of a FilePathBuf made by FilePathBuf::new from
\* their join have been yielded last to first.
C15_Witness ==
    /\ buf.made = "FilePathBuf::new"
    /\ CanonicalJoin(path)
    /\ out.op = "components().rev()"
    /\ Len(out.items) = 2
    /\ path = out.items[2] \o (Str(<<"/">>) \o out.items[1])

\* C16: to_owned of a valid FilePath holds the components of the path
\* joined by one '/', with no separator at either end, and it is the string
\* FilePathBuf::new makes of the same raw path.
C16_ToOwnedJoins ==
    buf.made = "FilePath::to_owned" /\ buf.res = Ok =>
        /\ buf.str = JoinSegments(ComponentsOf(path))
        /\ buf.str = FilePathBufNew(path).str
        /\ ~IsSep(buf.str[1]) /\ ~IsSep(buf.str[Len(buf.str)])

\* C16: to_owned has run on a path with a "." segment and a trailing
\* separator after its one component, and made a shorter string of it.
C16_Witness ==
    /\ buf.made = "FilePath::to_owned" /\ buf.res = Ok
    /\ \E i \in 2..Len(path) : DotSegmentAt(path, i)
    /\ IsSep(path[Len(path)])
    /\ Len(ComponentsOf(path)) = 1
    /\ Len(buf.str) < Len(path)

\* C19: file_path_and_name of a FilePathBuf is None exactly when the
\* FilePathBuf has one component; otherwise file_name is the last
\* component, file_path is a valid FilePath of the components before it,
\* and file_path, '/' and file_name make up the FilePathBuf's string.
C19_FilePathAndName ==
    out.op = "file_path_and_name" =>
        LET segs == Segments(buf.str)
            n == Len(Segments(buf.str))
        IN  /\ ~out.split.some <=> n = 1
            /\ out.split.some =>
                  /\ out.split.file_name = segs[n]
                  /\ out.split.file_path = JoinSegments(SubSeq(segs, 1, n - 1))
                  /\ FilePathNew(out.split.file_path).res = Ok
                  /\ out.split.file_path \o (Str(<<"/">>) \o out.split.file_name)
                        = buf.str

\* C19: a FilePathBuf of more than two components has been split.
C19_Witness ==
    /\ out.op = "file_path_and_name"
    /\ out.split.some
    /\ Len(Segments(buf.str)) > 2
    /\ Len(Segments(out.split.file_path)) = Len(Segments(buf.str)) - 1

-----------------------------------------------------------------------------
(* Properties of file_stem_and_extension (SpecName).                       *)

\* The indices of the periods of s.
Periods(s) == {i \in 1..Len(s) : Chr(s[i]) = "."}

\* The largest element of a non-empty set of indices.
Largest(S) == CHOOSE i \in S : \A j \in S : j <= i

\* C18: file_stem_and_extension returns None for a name with no period
\* and for a name that ends with a period; otherwise the extension is the
\* text after the last period, the stem the text before it (None when
\* there is none), and stem, '.' and extension make up the name.
C18_SplitsAtLastPeriod ==
    out.op = "file_stem_and_extension" =>
        IF Periods(component) = {} \/ Len(component) \in Periods(component)
        THEN ~out.split.some
        ELSE LET k == Largest(Periods(component))
                 stem == IF out.split.file_stem.some
                         THEN out.split.file_stem.str ELSE <<>>
             IN  /\ out.split.some
                 /\ out.split.extension = SubSeq(component, k + 1, Len(component))
                 /\ out.split.extension # <<>>
                 /\ Periods(out.split.extension) = {}
                 /\ out.split.file_stem.some <=> k > 1
                 /\ stem = SubSeq(component, 1, k - 1)
                 /\ stem \o (Str(<<".">>) \o out.split.extension) = component

\* C18: a name with two periods has been split into a stem that holds the
\* first of them and an extension.
C18_Witness ==
    /\ out.op = "file_stem_and_extension"
    /\ out.split.some /\ out.split.file_stem.some
    /\ Cardinality(Periods(component)) = 2
    /\ Cardinality(Periods(out.split.file_stem.str)) = 1
    /\ out.split.extension = Str(<<"t", "x", "t">>)

-----------------------------------------------------------------------------
(* Properties of the FilePathBuilder (SpecBuilder).                        *)

\* C20: a push that succeeds leaves the builder with its old contents,
\* then '/' if they were not empty, then the components of the pushed path
\* joined by '/': the separators of the pushed path, repeated or trailing,
\* and its "." segments are not in the builder.
C20_PushAppends ==
    [][op' = "push" /\ result'.res = Ok =>
          /\ builder' = builder
                           \o (IF builder # <<>> THEN Str(<<"/">>) ELSE <<>>)
                           \o JoinSegments(ComponentsOf(path'))
          /\ Segments(builder') = Segments(builder) \o ComponentsOf(path')
          /\ builder' = JoinSegments(Segments(builder'))]_vars

\* C20: as in tests::builder, "a/./B//" has been pushed to a builder that
\* held "a/B", which now holds "a/B/a/B".
C20_Witness ==
    /\ op = "push" /\ result.res = Ok
    /\ path = Str(<<"a", "/", ".", "/", "B", "/", "/">>)
    /\ builder = Str(<<"a", "/", "B", "/", "a", "/", "B">>)

\* C21: pop returns true exactly when the builder was not empty; it then
\* removes the last component and the separator before it and leaves the
\* components before it as they were, so that popping right after a
\* successful push of one component gives back what the builder held
\* before the push; on an empty builder it returns false and changes
\* nothing.
C21_PopRemovesLast ==
    [][op' \in {"pop", "pop (empty)"} =>
          LET segs == Segments(builder)
          IN  /\ op' = "pop" <=> builder # <<>>
              /\ builder = <<>> => builder' = <<>>
              /\ builder # <<>> =>
                    /\ Segments(builder') = SubSeq(segs, 1, Len(segs) - 1)
                    /\ builder' = JoinSegments(SubSeq(segs, 1, Len(segs) - 1))
                    /\ builder = builder'
                                    \o (IF builder' # <<>> THEN Str(<<"/">>) ELSE <<>>)
                                    \o segs[Len(segs)]
              /\ op = "push" /\ result.res = Ok /\ Len(ComponentsOf(path)) = 1 =>
                    builder = builder'
                                 \o (IF builder' # <<>> THEN Str(<<"/">>) ELSE <<>>)
                                 \o JoinSegments(ComponentsOf(path))]_vars

\* C21: the last of three components has been popped.
C21_Witness ==
    /\ op = "pop"
    /\ builder = Str(<<"a", "/", "B">>)

-----------------------------------------------------------------------------
(* Properties of split_at_reserved_name (SpecSplit).                       *)

\* split_at_reserved_name has run on `component`.
Split == out.op = "split_at_reserved_name"

\* The occurrences of reserved names in s, found by trying every substring:
\* <<i, j>> when the characters i..j of s are a reserved name in some case.
Occurrences(s) ==
    {ij \in (1..Len(s)) \X (1..Len(s)) :
        ij[1] <= ij[2] /\ Lower(SubSeq(s, ij[1], ij[2])) \in DeviceNames}

\* C22: split_at_reserved_name returns Some exactly when a reserved name
\* occurs somewhere in the component, and then splits at the occurrence
\* that ends first.
C22_EquivalentToSearch ==
    Split =>
        /\ out.ret.some <=> Occurrences(component) # {}
        /\ out.ret.some =>
              \E ij \in Occurrences(component) :
                  /\ \A other \in Occurrences(component) : ij[2] <= other[2]
                  /\ out.ret.l = SubSeq(component, 1, ij[1] - 1)
                  /\ out.ret.r = SubSeq(component, ij[2] + 1, Len(component))

\* The reserved names CON can be extended into.
ConExtended == { Str(<<"c", "o", "n", "i", "n", "$">>), Str(<<"c", "o", "n", "o", "u", "t", "$">>) }

\* Whether a CON starts at index i of s, is followed by 'i' or 'o', is not
\* the start of CONIN$ or CONOUT$, and no reserved name ends before it does.
ConWithFailedExtensionAt(s, i) ==
    /\ i + 3 <= Len(s)
    /\ Lower(SubSeq(s, i, i + 2)) = Str(<<"c", "o", "n">>)
    /\ Chr(Lower(s)[i + 3]) \in {"i", "o"}
    /\ \A j \in i..Len(s) : Lower(SubSeq(s, i, j)) \notin ConExtended
    /\ \A ij \in Occurrences(s) : ij[2] >= i + 2

\* C23: when CON is followed by 'i' or 'o' and the extension to CONIN$ or
\* CONOUT$ fails later or the component ends before it is complete, the
\* CON match is still reported: the text before CON and the text right
\* after it are returned.
C23_ConKeptWhenExtensionFails ==
    Split =>
        \A i \in 1..Len(component) :
            ConWithFailedExtensionAt(component, i) =>
                /\ out.ret.some
                /\ out.ret.l = SubSeq(component, 1, i - 1)
                /\ out.ret.r = SubSeq(component, i + 3, Len(component))

\* The byte offsets at which a character of s starts, and the length of s.
CharBoundaries(s) == {StrLen(SubSeq(s, 1, k)) : k \in 0..Len(s)}

\* C24: when split_at_reserved_name returns Some((l, r)), the component is
\* l, then a reserved name in some case, then r, nothing trimmed; a
\* character that completes CON by not being 'i' or 'o' belongs to r.
C24_SplitsAroundAName ==
    Split /\ out.ret.some =>
        /\ \E ij \in Occurrences(component) :
              /\ out.ret.l = SubSeq(component, 1, ij[1] - 1)
              /\ out.ret.r = SubSeq(component, ij[2] + 1, Len(component))
              /\ out.ret.l \o SubSeq(component, ij[1], ij[2]) \o out.ret.r = component
        /\ \A i \in 1..Len(component) :
              /\ i + 3 <= Len(component)
              /\ Lower(SubSeq(component, i, i + 2)) = Str(<<"c", "o", "n">>)
              /\ \A ij \in Occurrences(component) : ij[2] >= i + 2
              /\ Chr(Lower(component)[i + 3]) \notin {"i", "o"}
              /\ IsAscii(component[i + 3])
              => out.ret.r = SubSeq(component, i + 3, Len(component))

\* C24: "CON7" (in some case) has been split into "" and "7".
C24_Witness ==
    /\ Split /\ out.ret.some
    /\ Lower(component) = Str(<<"c", "o", "n", "7">>)
    /\ out.ret.l = <<>>
    /\ out.ret.r = Str(<<"7">>)

\* C27: the offsets split_at_reserved_name_impl slices at are in bounds and
\* in order, 0 <= l_end <= r_start <= component.len(), and both are
\* character boundaries of the component.
C27_SlicesInBounds ==
    Split /\ out.ret.some =>
        /\ 0 <= out.ret.l_end
        /\ out.ret.l_end <= out.ret.r_start
        /\ out.ret.r_start <= StrLen(component)
        /\ out.ret.l_end \in CharBoundaries(component)
        /\ out.ret.r_start \in CharBoundaries(component)
        /\ StrLen(out.ret.l) = out.ret.l_end
        /\ StrLen(out.ret.r) = StrLen(component) - out.ret.r_start

\* C27: a component that starts with a two-byte character and ends with
\* CON has been split, by finish, at byte offsets 2 and 5.
C27_Witness ==
    /\ Split /\ out.ret.some
    /\ component[1] > 127
    /\ Lower(SubSeq(component, 2, Len(component))) = Str(<<"c", "o", "n">>)
    /\ out.ret.l_end = 2
    /\ out.ret.r_start = 5

-----------------------------------------------------------------------------
(* Hashing and the component sequence (SpecPair).                          *)

\* C30: two valid paths with different component sequences write different
\* byte streams to the hasher.
C30_HashDeterminesComponents ==
    cmp.hashed = 2 /\ ComponentsOf(lhs.str) # ComponentsOf(rhs.str)
        => cmp.lhs_hash # cmp.rhs_hash

-----------------------------------------------------------------------------
(* White space between a reserved name and the extension (Spec).           *)

\* C29: every component made of a reserved name, a run of white space and
\* the extension '.txt' is rejected with ReservedName, whichever name it is.
C29_WhitespaceRuleUniform ==
    component \in PaddedNames /\ vresult # Pending
        => vresult.kind \in {"ReservedName", "false"}

-----------------------------------------------------------------------------
(* Failed pushes and the builder invariant (SpecIntoBuilder).              *)

\* C25: a push that returns an error leaves the builder's contents (and so
\* its len()) as they were before the call.
C25_FailedPushLeavesBuilder ==
    [][(op' = "push" /\ result'.res # Ok) => builder' = builder]_vars


\* Whether string has the form of components joined by single '/': it neither
\* starts nor ends with '/', has no two '/' in a row and no '\'.
SingleSeparators(string) ==
    /\ string # <<>>
    /\ string[1] # SEPARATOR_CHAR /\ string[Len(string)] # SEPARATOR_CHAR
    /\ \A i \in 1..(Len(string) - 1) :
          /\ string[i] # Ord("\\")
          /\ string[i] = SEPARATOR_CHAR => string[i + 1] # SEPARATOR_CHAR
    /\ string[Len(string)] # Ord("\\")

\* C26: the builder is empty or holds a canonical path (valid components
\* joined by single '/') of at most MAX_PATH_LEN bytes, after any calls of
\* push, pop and clear, from new or from into_builder; build() is None
\* exactly when it is empty and otherwise returns a FilePathBuf that
\* FilePathBuf::new reproduces.  (Of the builders longer than the short
\* ones, FilePathBuf::new is run on those a push left with PathTooLong.)
C26_BuilderInvariant ==
    LET Reproduced(built, made) ==
            /\ built.some
            /\ Len(built.str) <= 2 * MaxBuilderLen \/ result.res.kind = "PathTooLong"
                  => made = [res |-> Ok, str |-> built.str]
    IN  IF builder = <<>>
        THEN ~FilePathBuilderBuild(builder).some
        ELSE /\ SingleSeparators(builder)
             /\ StrLen(builder) <= MAX_PATH_LEN
             /\ Len(builder) <= 2 * MaxBuilderLen => CanonicalJoin(builder)
             /\ Reproduced(FilePathBuilderBuild(builder),
                           FilePathBufNew(FilePathBuilderBuild(builder).str))

\* A builder made by into_builder is full after a push that failed.
C26_Witness ==
    /\ op = "push" /\ result.res.kind = "PathTooLong"
    /\ StrLen(builder) = MAX_PATH_LEN

-----------------------------------------------------------------------------
(* Properties of FilePathBufIter (SpecIter).                               *)

\* C28: whatever the order of the next() and next_back() calls on the
\* iterator of a FilePathBuf of n components, the calls of next() have
\* returned the first components root to leaf and those of next_back() the
\* last ones leaf to root, no component twice and none empty; the first n
\* calls return a component and every later call returns None; the
\* components are those the std-based FilePathIter yields for the string.
C28_EachComponentOnce ==
    out.op = "components" =>
        LET comps == Components(buf.str)
            n == Len(comps)
            front == out.front
            back == out.back
        IN  /\ comps = Segments(buf.str)
            /\ Len(front) + Len(back) <= n
            /\ front = SubSeq(comps, 1, Len(front))
            /\ \A k \in 1..Len(back) : back[k] = comps[n + 1 - k]
            /\ \A k \in 1..Len(front) : front[k] # <<>>
            /\ \A k \in 1..Len(back) : back[k] # <<>>
            /\ out.calls > 0 => (out.last.some <=> out.calls <= n)
            /\ out.calls <= n => Len(front) + Len(back) = out.calls
            /\ out.calls > n => Len(front) + Len(back) = n
            /\ out.src.some <=> Len(front) + Len(back) < n

\* C28: a path of four components has been iterated from both ends, two
\* components each, and the iterator has then returned None twice.
C28_Witness ==
    /\ out.op = "components"
    /\ Len(out.front) = 2 /\ Len(out.back) = 2
    /\ out.calls = 6 /\ ~out.last.some
    /\ out.front \o Reversed(out.back) = Components(buf.str)

====
